---- MODULE Spec2Model ----
(***************************************************************************)
(* Model of the market-execution simulator (sim::MarketSimulator): the     *)
(* order store, the latency heap, the per-price FIFO buckets, the STP      *)
(* summaries, the ledger and the two logs, with one action per public      *)
(* operation (reset, place_limit, place_market, cancel, step).  The fill   *)
(* routines apply_passive_fills_one_bucket_ and apply_aggressive_fills_    *)
(* are defined in the sources but step() does not call them; they are      *)
(* modelled as operators and driven directly in the specification          *)
(* SpecFills.                                                              *)
(*                                                                         *)
(* The simulator is one record value `sim`; every C++ member function is   *)
(* an operator from simulator values to simulator values.  Order indices   *)
(* are 1-based (C++: 0-based), so the order with id k sits at index k and  *)
(* kInvalidIndex is 0.  Level indices stay 0-based, -1 meaning "none".     *)
(***************************************************************************)
EXTENDS Integers, Sequences, FiniteSets, TLC

(***************************************************************************)
(* Bounds of the model.                                                    *)
(***************************************************************************)
\* Number of operations explored from the initial state.
MaxOps == 5
\* SimulatorParams::max_orders of the modelled instance.
MaxOrders == 3
\* SimulatorParams::max_events of the modelled instance.
MaxEvents == 8
\* max_events of the instances whose event log fills up within MaxOps operations.
MinEvents == 3
\* Number of price levels per side of a snapshot (md::l2::kDepth is 20).
Depth == 2

(***************************************************************************)
(* Program constants.                                                      *)
(***************************************************************************)
kPriceScale == 100000000
PpmScale == 1000000
kBidNullPriceQ == 0
\* INT64_MAX in the source; the largest integer of the model checker here.
kAskNullPriceQ == 2147483647
kNullQtyQ == 0
kInvalidIndex == 0
\* std::numeric_limits<i64>::max(), likewise.
kI64Max == 2147483647

Min(a, b) == IF a < b THEN a ELSE b

is_terminal(st) == st \in {"Filled", "Cancelled", "Rejected"}

is_resting(st) == st \in {"Active", "Partial"}

(***************************************************************************)
(* Snapshots (md::l2::Record): ts_recv_ns and Depth levels per side, the   *)
(* missing levels filled with the sentinels.                               *)
(***************************************************************************)
BidNullLevel == [price_q |-> kBidNullPriceQ, qty_q |-> kNullQtyQ]
AskNullLevel == [price_q |-> kAskNullPriceQ, qty_q |-> kNullQtyQ]

Pad(ladder, null) ==
  [i \in 1..Depth |-> IF i <= Len(ladder) THEN ladder[i] ELSE null]

make_record(ts, bidLadder, askLadder) ==
  [ts_recv_ns |-> ts,
   bids |-> Pad(bidLadder, BidNullLevel),
   asks |-> Pad(askLadder, AskNullLevel)]

is_valid_bid_price(p) == p # kBidNullPriceQ
is_valid_ask_price(p) == p # kAskNullPriceQ

is_bid_active(l) == l.qty_q > 0 /\ l.price_q > 0
is_ask_active(l) == l.qty_q > 0 /\ l.price_q # kAskNullPriceQ
record_has_top_of_book(r) == is_bid_active(r.bids[1]) /\ is_ask_active(r.asks[1])

NoLookup ==
  [found |-> FALSE, within_range |-> FALSE, idx |-> -1, qty_q |-> 0,
   best_q |-> 0, worst_q |-> 0]

\* Number of leading valid levels of a side (the first scan of bid_level/ask_level).
RECURSIVE ValidPrefix(_, _, _)
ValidPrefix(levels, nullPrice, i) ==
  IF i > Depth \/ levels[i].price_q = nullPrice THEN i - 1
  ELSE ValidPrefix(levels, nullPrice, i + 1)

\* The second scan of bid_level: stops at the price or once it has been passed.
RECURSIVE BidScan(_, _, _, _, _)
BidScan(levels, price_q, i, n, out) ==
  IF i > n THEN out
  ELSE IF levels[i].price_q = price_q
       THEN [out EXCEPT !.found = TRUE, !.idx = i - 1, !.qty_q = levels[i].qty_q]
  ELSE IF levels[i].price_q < price_q THEN out
  ELSE BidScan(levels, price_q, i + 1, n, out)

bid_level(rec, price_q) ==
  LET best == rec.bids[1].price_q
      n == ValidPrefix(rec.bids, kBidNullPriceQ, 1)
      out == [NoLookup EXCEPT !.best_q = best, !.worst_q = rec.bids[n].price_q]
  IN IF ~is_valid_bid_price(best) THEN NoLookup
     ELSE IF price_q > best \/ price_q < out.worst_q THEN out
     ELSE BidScan(rec.bids, price_q, 1, n, [out EXCEPT !.within_range = TRUE])

RECURSIVE AskScan(_, _, _, _, _)
AskScan(levels, price_q, i, n, out) ==
  IF i > n THEN out
  ELSE IF levels[i].price_q = price_q
       THEN [out EXCEPT !.found = TRUE, !.idx = i - 1, !.qty_q = levels[i].qty_q]
  ELSE IF levels[i].price_q > price_q THEN out
  ELSE AskScan(levels, price_q, i + 1, n, out)

ask_level(rec, price_q) ==
  LET best == rec.asks[1].price_q
      n == ValidPrefix(rec.asks, kAskNullPriceQ, 1)
      out == [NoLookup EXCEPT !.best_q = best, !.worst_q = rec.asks[n].price_q]
  IN IF ~is_valid_ask_price(best) THEN NoLookup
     ELSE IF price_q < best \/ price_q > out.worst_q THEN out
     ELSE AskScan(rec.asks, price_q, 1, n, [out EXCEPT !.within_range = TRUE])

\* Deterministic min-depletion rule.  The #else branch of the source is elided
\* ("..."); the 128-bit quotient floor(depletion * alpha / 1e6) is what both the
\* visible branch and the header comment compute.
EffectiveDepletionFloor(depletion_q, alpha_ppm) ==
  IF depletion_q <= 0 THEN 0 ELSE (depletion_q * alpha_ppm) \div PpmScale
effective_depletion(depletion_q, alpha_ppm) ==
  IF depletion_q <= 0 \/ alpha_ppm = 0 THEN 0
  ELSE LET eff == (depletion_q * alpha_ppm) \div PpmScale
       IN IF eff = 0 THEN 1
          ELSE IF eff > depletion_q THEN depletion_q
          ELSE eff

(***************************************************************************)
(* Simulator values.  The per-side members of the class (active_bids_ /    *)
(* active_asks_, bid_prices_ / ask_prices_, ...) are one field each,       *)
(* indexed by the side: active_, active_pos_, prices_, buckets_,           *)
(* has_active_, best_active_q_.  Order::type is always Limit (place_market *)
(* never stores an order) and is left out with client_order_id and tif.    *)
(***************************************************************************)
Sides == {"Buy", "Sell"}

NewOrder(id, req, now, latency) ==
  [id |-> id, side |-> req.side, price_q |-> req.price_q, qty_q |-> req.qty_q,
   filled_qty_q |-> 0, qty_ahead_q |-> 0, last_level_qty_q |-> 0,
   last_level_idx |-> -1, visibility |-> "Blind",
   submit_ts |-> now, activate_ts |-> now + latency,
   state |-> "Pending", reject_reason |-> "None",
   bucket_prev |-> kInvalidIndex, bucket_next |-> kInvalidIndex]

NewBucket ==
  [head |-> kInvalidIndex, tail |-> kInvalidIndex, size |-> 0,
   last_level_qty_q |-> 0, last_level_idx |-> -1, visibility |-> "Blind"]

InsertAt(seq, i, x) == SubSeq(seq, 1, i - 1) \o <<x>> \o SubSeq(seq, i, Len(seq))
RemoveAt(seq, i) == SubSeq(seq, 1, i - 1) \o SubSeq(seq, i + 1, Len(seq))

PushEventAlwaysOk(s) == TRUE
push_event_ok(s) == Len(s.events_) < s.params_.max_events
push_event_(s, ts, id, et, st, rr) ==
  IF ~push_event_ok(s) THEN s
  ELSE [s EXCEPT !.events_ = Append(@, [ts |-> ts, order_id |-> id, type |-> et,
                                         state |-> st, reject_reason |-> rr])]

validate_limit_(req) ==
  IF req.qty_q <= 0 \/ req.price_q <= 0 THEN "InvalidParams" ELSE "None"

\* The product of two positive i64 values does not fit in i64.
mul_i64_overflow(a, b) == a > kI64Max \div b

\* The reject reason of risk_check_and_lock_limit_.
RiskCheckWithoutFunds(s, side, price_q, qty_q) ==
  IF price_q <= 0 \/ qty_q <= 0 THEN "InvalidParams"
  ELSE IF side = "Buy" /\ mul_i64_overflow(price_q, qty_q) THEN "InvalidParams"
  ELSE "None"
risk_check_limit_(s, side, price_q, qty_q) ==
  IF price_q <= 0 \/ qty_q <= 0 THEN "InvalidParams"
  ELSE IF side = "Buy"
       THEN IF mul_i64_overflow(price_q, qty_q) THEN "InvalidParams"
            ELSE IF s.ledger_.cash_q - s.ledger_.locked_cash_q < price_q * qty_q
            THEN "InsufficientFunds" ELSE "None"
  ELSE IF s.params_.risk.spot_no_short
          /\ s.ledger_.position_qty_q - s.ledger_.locked_position_qty_q < qty_q
       THEN "InsufficientFunds"
  ELSE "None"

\* The ledger after risk_check_and_lock_limit_ returned None.
risk_check_and_lock_limit_(s, side, price_q, qty_q) ==
  IF side = "Buy"
  THEN [s EXCEPT !.ledger_.locked_cash_q = @ + price_q * qty_q]
  ELSE [s EXCEPT !.ledger_.locked_position_qty_q = @ + qty_q]

UnlockNothing(s, o) == s
unlock_on_cancel_(s, o) ==
  LET remaining == o.qty_q - o.filled_qty_q
  IN IF remaining <= 0 THEN s
     ELSE IF o.side = "Buy"
          THEN LET v == s.ledger_.locked_cash_q - o.price_q * remaining
               IN [s EXCEPT !.ledger_.locked_cash_q = IF v < 0 THEN 0 ELSE v]
     ELSE LET v == s.ledger_.locked_position_qty_q - remaining
          IN [s EXCEPT !.ledger_.locked_position_qty_q = IF v < 0 THEN 0 ELSE v]

(***************************************************************************)
(* Price buckets (sorted price vector + parallel bucket vector per side)   *)
(* and the intrusive FIFO through Order::bucket_prev / bucket_next.        *)
(***************************************************************************)
\* std::lower_bound: 1-based position of the first price >= price_q.
LowerBound(prices, price_q) ==
  1 + Cardinality({i \in 1..Len(prices) : prices[i] < price_q})

find_bucket_idx_(s, side, price_q) ==
  LET prices == s.prices_[side]
      i == LowerBound(prices, price_q)
  IN IF i > Len(prices) \/ prices[i] # price_q THEN kInvalidIndex ELSE i

get_or_insert_bucket_idx_(s, side, price_q) ==
  LET prices == s.prices_[side]
      i == LowerBound(prices, price_q)
  IN IF i <= Len(prices) /\ prices[i] = price_q THEN s
     ELSE [s EXCEPT !.prices_[side] = InsertAt(@, i, price_q),
                    !.buckets_[side] = InsertAt(@, i, NewBucket)]

\* Best resting price of a side as erase_*_bucket_if_empty_ recomputes it: the
\* back of bid_prices_ (highest), the front of ask_prices_ (lowest).
erase_bucket_if_empty_(s, side, bidx) ==
  IF s.defer_bucket_erase_ THEN s
  ELSE LET prices == RemoveAt(s.prices_[side], bidx)
       IN [s EXCEPT !.prices_[side] = prices,
                    !.buckets_[side] = RemoveAt(@, bidx),
                    !.has_active_[side] = prices # <<>>,
                    !.best_active_q_[side] =
                       IF prices = <<>> THEN 0
                       ELSE IF side = "Buy" THEN prices[Len(prices)]
                       ELSE prices[1]]

\* Links the order in front of the bucket's head instead of behind its tail.
BucketPushFront(s, side, bidx, order_idx) ==
  LET b == s.buckets_[side][bidx]
      s1 == [s EXCEPT !.orders_[order_idx].bucket_next = b.head,
                      !.orders_[order_idx].bucket_prev = kInvalidIndex]
      s2 == IF b.head # kInvalidIndex
            THEN [s1 EXCEPT !.orders_[b.head].bucket_prev = order_idx]
            ELSE [s1 EXCEPT !.buckets_[side][bidx].tail = order_idx]
  IN [s2 EXCEPT !.buckets_[side][bidx].head = order_idx,
                !.buckets_[side][bidx].size = @ + 1]

bucket_push_back_(s, side, bidx, order_idx) ==
  LET b == s.buckets_[side][bidx]
      s1 == [s EXCEPT !.orders_[order_idx].bucket_prev = b.tail,
                      !.orders_[order_idx].bucket_next = kInvalidIndex]
      s2 == IF b.tail # kInvalidIndex
            THEN [s1 EXCEPT !.orders_[b.tail].bucket_next = order_idx]
            ELSE [s1 EXCEPT !.buckets_[side][bidx].head = order_idx]
  IN [s2 EXCEPT !.buckets_[side][bidx].tail = order_idx,
                !.buckets_[side][bidx].size = @ + 1]

\* Unlinks the order from its neighbours and leaves the bucket's head and
\* tail as they were.
BucketEraseKeepsEnds(s, side, bidx, order_idx) ==
  LET prev == s.orders_[order_idx].bucket_prev
      next == s.orders_[order_idx].bucket_next
      s1 == IF prev # kInvalidIndex
            THEN [s EXCEPT !.orders_[prev].bucket_next = next] ELSE s
      s2 == IF next # kInvalidIndex
            THEN [s1 EXCEPT !.orders_[next].bucket_prev = prev] ELSE s1
      s3 == [s2 EXCEPT !.orders_[order_idx].bucket_prev = kInvalidIndex,
                       !.orders_[order_idx].bucket_next = kInvalidIndex,
                       !.buckets_[side][bidx].size = @ - 1]
  IN IF s3.buckets_[side][bidx].size = 0
     THEN erase_bucket_if_empty_(s3, side, bidx) ELSE s3

bucket_erase_(s, side, bidx, order_idx) ==
  LET prev == s.orders_[order_idx].bucket_prev
      next == s.orders_[order_idx].bucket_next
      s1 == IF prev # kInvalidIndex
            THEN [s EXCEPT !.orders_[prev].bucket_next = next]
            ELSE [s EXCEPT !.buckets_[side][bidx].head = next]
      s2 == IF next # kInvalidIndex
            THEN [s1 EXCEPT !.orders_[next].bucket_prev = prev]
            ELSE [s1 EXCEPT !.buckets_[side][bidx].tail = prev]
      s3 == [s2 EXCEPT !.orders_[order_idx].bucket_prev = kInvalidIndex,
                       !.orders_[order_idx].bucket_next = kInvalidIndex,
                       !.buckets_[side][bidx].size = @ - 1]
  IN IF s3.buckets_[side][bidx].size = 0
     THEN erase_bucket_if_empty_(s3, side, bidx) ELSE s3

RemoveActiveKeepsLinks(s, side, order_id, order_idx) == s
remove_active_(s, side, order_id, order_idx) ==
  LET pos == s.active_pos_[side][order_id]
  IN IF pos = kInvalidIndex THEN s
     ELSE LET bidx == find_bucket_idx_(s, side, s.orders_[order_idx].price_q)
              s1 == IF bidx # kInvalidIndex
                    THEN bucket_erase_(s, side, bidx, order_idx) ELSE s
              act == s1.active_[side]
              last_oidx == act[Len(act)]
              moved_id == s1.orders_[last_oidx].id
          IN [s1 EXCEPT !.active_[side] =
                           SubSeq([act EXCEPT ![pos] = last_oidx], 1, Len(act) - 1),
                        !.active_pos_[side] =
                           [@ EXCEPT ![moved_id] = pos, ![order_id] = kInvalidIndex]]

(***************************************************************************)
(* Self-trade prevention at activation.                                    *)
(***************************************************************************)
Opp(side) == IF side = "Buy" THEN "Sell" ELSE "Buy"

\* The price predicate of the CancelResting scans (inclusive).
CrossesStrictly(incoming, r) ==
  IF incoming.side = "Buy" THEN r.price_q < incoming.price_q
  ELSE r.price_q > incoming.price_q
Crosses(incoming, r) ==
  IF incoming.side = "Buy" THEN r.price_q <= incoming.price_q
  ELSE r.price_q >= incoming.price_q

\* O(1) detection from the best-resting-price summaries.
SelfCrossCountsPending(s, incoming) ==
  \E j \in 1..Len(s.orders_) :
     /\ s.orders_[j].state \in {"Pending", "Active", "Partial"}
     /\ s.orders_[j].side = Opp(incoming.side)
     /\ Crosses(incoming, s.orders_[j])
self_cross(s, incoming) ==
  IF incoming.side = "Buy"
  THEN s.has_active_["Sell"] /\ incoming.price_q >= s.best_active_q_["Sell"]
  ELSE s.has_active_["Buy"] /\ incoming.price_q <= s.best_active_q_["Buy"]

cancel_count(s, incoming) ==
  LET act == s.active_[Opp(incoming.side)]
  IN Cardinality({i \in 1..Len(act) :
        is_resting(s.orders_[act[i]].state) /\ Crosses(incoming, s.orders_[act[i]])})

\* The cancelling loop over the opposite active set; remove_active_ swap-pops,
\* so the position i is only advanced past orders that stay.
RECURSIVE CancelCrossing(_, _, _)
CancelCrossing(s, incoming, i) ==
  LET side == Opp(incoming.side)
      act == s.active_[side]
  IN IF i > Len(act) THEN s
     ELSE LET oidx == act[i]
              r == s.orders_[oidx]
          IN IF ~(is_resting(r.state) /\ Crosses(incoming, r))
             THEN CancelCrossing(s, incoming, i + 1)
             ELSE LET s1 == unlock_on_cancel_(s, r)
                      s2 == [s1 EXCEPT !.orders_[oidx].state = "Cancelled"]
                      s3 == push_event_(s2, s2.now_, r.id, "Cancel", "Cancelled", "None")
                  IN CancelCrossing(remove_active_(s3, side, r.id, oidx), incoming, i)

RejectIncoming(s, idx, rr) ==
  [unlock_on_cancel_(s, s.orders_[idx])
     EXCEPT !.orders_[idx].state = "Rejected",
            !.orders_[idx].reject_reason = rr]

\* Returns the simulator after the policy was applied and whether the incoming
\* order may activate.
apply_stp_on_activate_(s, idx) ==
  LET incoming == s.orders_[idx]
  IN IF s.params_.stp = "None" \/ ~self_cross(s, incoming)
     THEN [s |-> s, ok |-> TRUE]
     ELSE IF s.params_.stp = "RejectIncoming"
     THEN LET rr == IF push_event_ok(s) THEN "SelfTradePrevention"
                    ELSE "InsufficientResources"
              s1 == push_event_(s, s.now_, incoming.id, "Reject", "Rejected",
                                "SelfTradePrevention")
          IN [s |-> RejectIncoming(s1, idx, rr), ok |-> FALSE]
     ELSE IF Len(s.events_) + cancel_count(s, incoming) > s.params_.max_events
     THEN LET s1 == push_event_(s, s.now_, incoming.id, "Reject", "Rejected",
                                "InsufficientResources")
          IN [s |-> RejectIncoming(s1, idx, "InsufficientResources"), ok |-> FALSE]
     ELSE [s |-> CancelCrossing(s, incoming, 1), ok |-> TRUE]

(***************************************************************************)
(* Queue / visibility state of one order (sim_queue.hpp).                  *)
(***************************************************************************)
level_lookup(rec, side, price_q) ==
  IF side = "Buy" THEN bid_level(rec, price_q) ELSE ask_level(rec, price_q)

InitOnActivateBlindUnlessFound(rec, o) ==
  LET m == level_lookup(rec, o.side, o.price_q)
  IN IF m.found
     THEN [o EXCEPT !.visibility = "Visible", !.last_level_idx = m.idx,
                    !.last_level_qty_q = m.qty_q, !.qty_ahead_q = m.qty_q]
     ELSE [o EXCEPT !.visibility = "Blind", !.last_level_idx = -1,
                    !.last_level_qty_q = 0, !.qty_ahead_q = 0]
init_on_activate(rec, o) ==
  LET m == level_lookup(rec, o.side, o.price_q)
  IN IF o.price_q <= 0 \/ ~m.within_range
     THEN [o EXCEPT !.visibility = "Blind", !.last_level_idx = -1,
                    !.last_level_qty_q = 0, !.qty_ahead_q = 0]
     ELSE IF m.found
     THEN [o EXCEPT !.visibility = "Visible", !.last_level_idx = m.idx,
                    !.last_level_qty_q = m.qty_q, !.qty_ahead_q = m.qty_q]
     ELSE [o EXCEPT !.visibility = "Visible", !.last_level_idx = -1,
                    !.last_level_qty_q = 0, !.qty_ahead_q = 0]

\* Trade-through: the opposing best price touches or crosses the limit.
trade_through(side, price_q, best_bid, best_ask) ==
  IF side = "Buy" THEN is_valid_ask_price(best_ask) /\ best_ask <= price_q
  ELSE is_valid_bid_price(best_bid) /\ best_bid >= price_q

update_one_cached(params, m, best_bid, best_ask, o) ==
  IF o.price_q <= 0 \/ ~is_resting(o.state) THEN o
  ELSE
    LET o1 == IF trade_through(o.side, o.price_q, best_bid, best_ask)
              THEN [o EXCEPT !.qty_ahead_q = 0] ELSE o
    IN IF m.found
       THEN IF o1.visibility \in {"Frozen", "Blind"} \/ o1.last_level_idx < 0
            THEN [o1 EXCEPT !.visibility = "Visible", !.last_level_idx = m.idx,
                            !.last_level_qty_q = m.qty_q, !.qty_ahead_q = m.qty_q]
            ELSE LET prev == o1.last_level_qty_q
                     depl == IF prev > m.qty_q THEN prev - m.qty_q ELSE 0
                     eff == effective_depletion(depl, params.alpha_ppm)
                 IN [o1 EXCEPT !.qty_ahead_q =
                                  IF eff > 0
                                  THEN (IF @ > eff THEN @ - eff ELSE 0) ELSE @,
                               !.last_level_idx = m.idx,
                               !.last_level_qty_q = m.qty_q]
       ELSE IF m.within_range
       THEN IF o1.visibility = "Blind"
            THEN [o1 EXCEPT !.visibility = "Visible", !.last_level_idx = -1,
                            !.last_level_qty_q = 0, !.qty_ahead_q = 0]
            ELSE IF o1.visibility = "Visible" /\ o1.last_level_idx >= 0
            THEN [o1 EXCEPT !.visibility = "Frozen", !.last_level_idx = -1,
                            !.last_level_qty_q = 0]
            ELSE o1
       ELSE IF o1.visibility = "Visible"
            THEN [o1 EXCEPT !.visibility = "Frozen", !.last_level_idx = -1,
                            !.last_level_qty_q = 0]
            ELSE o1

(***************************************************************************)
(* Fills: apply_fill_ (ledger + FillEvent), the aggressive sweep and the   *)
(* per-bucket passive allocator.                                           *)
(***************************************************************************)
\* floor(price_q * qty_q / kPriceScale), in cash units.
NotionalRoundedUp(price_q, qty_q) ==
  (price_q * qty_q + kPriceScale - 1) \div kPriceScale
notional_cash_q(price_q, qty_q) == (price_q * qty_q) \div kPriceScale

\* floor(notional * fee_ppm / 1e6).
fee_cash_q(notional_q, fee_ppm) == (notional_q * fee_ppm) \div PpmScale

\* The ledger update of a fill: a buy spends cash and gains position, a sell
\* earns cash and loses position; the fee is always paid.
LedgerAfterFillNoFee(ledger, side, notional_q, fee_q, qty_q) ==
  IF side = "Buy"
  THEN [ledger EXCEPT !.cash_q = @ - notional_q, !.position_qty_q = @ + qty_q]
  ELSE [ledger EXCEPT !.cash_q = @ + notional_q, !.position_qty_q = @ - qty_q]
ledger_after_fill(ledger, side, notional_q, fee_q, qty_q) ==
  IF side = "Buy"
  THEN [ledger EXCEPT !.cash_q = @ - notional_q - fee_q, !.position_qty_q = @ + qty_q]
  ELSE [ledger EXCEPT !.cash_q = @ + notional_q - fee_q, !.position_qty_q = @ - qty_q]

ApplyFillKeepsState(s, idx, price_q, qty_q, liq) ==
  [s EXCEPT !.orders_[idx].filled_qty_q = @ + qty_q]
apply_fill_(s, idx, price_q, qty_q, liq) ==
  LET o == s.orders_[idx]
      notional_q == notional_cash_q(price_q, qty_q)
      fee_q == fee_cash_q(notional_q,
                          IF liq = "Maker" THEN s.params_.fees.maker_fee_ppm
                          ELSE s.params_.fees.taker_fee_ppm)
      s1 == [s EXCEPT !.ledger_ = ledger_after_fill(@, o.side, notional_q, fee_q, qty_q)]
      o1 == [o EXCEPT !.filled_qty_q = @ + qty_q]
      \* unlock_on_cancel_ is handed the order after filled_qty_q was raised
      s2 == IF o1.filled_qty_q = o1.qty_q
            THEN [unlock_on_cancel_(s1, o1) EXCEPT !.orders_[idx] =
                                                    [o1 EXCEPT !.state = "Filled"]]
            ELSE [s1 EXCEPT !.orders_[idx] = [o1 EXCEPT !.state = "Partial"]]
  IN [s2 EXCEPT !.fills_ = Append(@, [ts |-> s.now_, order_id |-> o.id,
                                      side |-> o.side, price_q |-> price_q,
                                      qty_q |-> qty_q, liq |-> liq,
                                      notional_cash_q |-> notional_q,
                                      fee_cash_q |-> fee_q])]

\* Sweep state: the simulator and the remaining visible quantity per level of
\* each side of the snapshot (bid_qty_rem / ask_qty_rem).
sweep_init(s, rec) ==
  [s |-> s,
   rem |-> [sd \in Sides |->
             [i \in 1..Depth |->
                IF sd = "Buy"
                THEN (IF is_valid_bid_price(rec.bids[i].price_q)
                      THEN rec.bids[i].qty_q ELSE 0)
                ELSE (IF is_valid_ask_price(rec.asks[i].price_q)
                      THEN rec.asks[i].qty_q ELSE 0)]]]

\* One taker order against the opposing levels with no test of the level's
\* price against the order's limit.
RECURSIVE SweepLevelsIgnoringLimit(_, _, _, _, _)
SweepLevelsIgnoringLimit(st, rec, cur, lvl, remaining) ==
  LET o == st.s.orders_[cur]
      opp == Opp(o.side)
      px == IF lvl > Depth THEN 0
            ELSE IF o.side = "Buy" THEN rec.asks[lvl].price_q ELSE rec.bids[lvl].price_q
      stop == IF o.side = "Buy" THEN ~is_valid_ask_price(px) ELSE ~is_valid_bid_price(px)
  IN IF lvl > Depth \/ remaining <= 0 THEN st
     ELSE IF stop THEN st
     ELSE IF st.rem[opp][lvl] <= 0
          THEN SweepLevelsIgnoringLimit(st, rec, cur, lvl + 1, remaining)
     ELSE LET dq == Min(remaining, st.rem[opp][lvl])
              s1 == apply_fill_(st.s, cur, px, dq, "Taker")
              st1 == [st EXCEPT !.rem[opp][lvl] = @ - dq]
          IN IF s1.orders_[cur].state = "Filled"
             THEN [st1 EXCEPT !.s = remove_active_(s1, o.side, o.id, cur)]
             ELSE SweepLevelsIgnoringLimit([st1 EXCEPT !.s = s1], rec, cur, lvl + 1,
                                           remaining - dq)

\* One taker order against the opposing levels, best outward.
RECURSIVE sweep_levels(_, _, _, _, _)
sweep_levels(st, rec, cur, lvl, remaining) ==
  LET o == st.s.orders_[cur]
      opp == Opp(o.side)
      px == IF o.side = "Buy" THEN rec.asks[lvl].price_q ELSE rec.bids[lvl].price_q
      stop == IF o.side = "Buy"
              THEN ~is_valid_ask_price(px) \/ px > o.price_q
              ELSE ~is_valid_bid_price(px) \/ px < o.price_q
  IN IF lvl > Depth \/ remaining <= 0 THEN st
     ELSE IF stop THEN st
     ELSE IF st.rem[opp][lvl] <= 0 THEN sweep_levels(st, rec, cur, lvl + 1, remaining)
     ELSE LET dq == Min(remaining, st.rem[opp][lvl])
              s1 == apply_fill_(st.s, cur, px, dq, "Taker")
              st1 == [st EXCEPT !.rem[opp][lvl] = @ - dq]
          IN IF s1.orders_[cur].state = "Filled"
             THEN [st1 EXCEPT !.s = remove_active_(s1, o.side, o.id, cur)]
             ELSE sweep_levels([st1 EXCEPT !.s = s1], rec, cur, lvl + 1, remaining - dq)

\* The members of one bucket, each swept against the full displayed depth of
\* the snapshot instead of what the orders before it left.
RECURSIVE SweepMembersFreshDepth(_, _, _)
SweepMembersFreshDepth(st, rec, cur) ==
  IF cur = kInvalidIndex THEN st
  ELSE LET o == st.s.orders_[cur]
           next == o.bucket_next
           remaining == o.qty_q - o.filled_qty_q
           fresh == [st EXCEPT !.rem = sweep_init(st.s, rec).rem]
       IN IF ~is_resting(o.state) \/ remaining <= 0
          THEN SweepMembersFreshDepth(st, rec, next)
          ELSE SweepMembersFreshDepth(sweep_levels(fresh, rec, cur, 1, remaining), rec, next)

\* The members of one bucket swept from the tail back to the head.
RECURSIVE SweepMembersTailFirst(_, _, _)
SweepMembersTailFirst(st, rec, cur) ==
  IF cur = kInvalidIndex THEN st
  ELSE LET st1 == SweepMembersTailFirst(st, rec, st.s.orders_[cur].bucket_next)
           o == st1.s.orders_[cur]
           remaining == o.qty_q - o.filled_qty_q
       IN IF ~is_resting(o.state) \/ remaining <= 0 THEN st1
          ELSE sweep_levels(st1, rec, cur, 1, remaining)

\* The members of one marketable bucket, head to tail.
RECURSIVE sweep_members(_, _, _)
sweep_members(st, rec, cur) ==
  IF cur = kInvalidIndex THEN st
  ELSE LET o == st.s.orders_[cur]
           next == o.bucket_next
           remaining == o.qty_q - o.filled_qty_q
       IN IF ~is_resting(o.state) \/ remaining <= 0
          THEN sweep_members(st, rec, next)
          ELSE sweep_members(sweep_levels(st, rec, cur, 1, remaining), rec, next)

\* Buy takers: bid buckets from the highest price down while marketable.
RECURSIVE sweep_buys(_, _, _)
sweep_buys(st, rec, pi) ==
  IF pi < 1 \/ st.s.prices_["Buy"][pi] < rec.asks[1].price_q THEN st
  ELSE sweep_buys(sweep_members(st, rec, st.s.buckets_["Buy"][pi].head), rec, pi - 1)

\* Sell takers: ask buckets from the lowest price up while marketable.  The
\* position advances by one after each bucket, also when the bucket was erased
\* under it and the later buckets moved down.
RECURSIVE sweep_sells(_, _, _)
sweep_sells(st, rec, pi) ==
  IF pi > Len(st.s.prices_["Sell"]) \/ st.s.prices_["Sell"][pi] > rec.bids[1].price_q
  THEN st
  ELSE sweep_sells(sweep_members(st, rec, st.s.buckets_["Sell"][pi].head), rec, pi + 1)

apply_aggressive_fills_(s, rec) ==
  IF ~record_has_top_of_book(rec) THEN s
  ELSE LET st0 == sweep_init(s, rec)
           st1 == IF is_valid_ask_price(rec.asks[1].price_q)
                  THEN sweep_buys(st0, rec, Len(s.prices_["Buy"])) ELSE st0
           st2 == IF is_valid_bid_price(rec.bids[1].price_q)
                  THEN sweep_sells(st1, rec, 1) ELSE st1
       IN st2.s

\* Mirrors the bucket's visibility state onto its resting members; on a
\* re-anchor or a Blind -> Visible transition qty_ahead is overwritten too.
RECURSIVE mirror_members(_, _, _, _, _, _)
mirror_members(s, cur, vis, idx, qty, setAhead) ==
  IF cur = kInvalidIndex THEN s
  ELSE LET o == s.orders_[cur]
           o1 == [o EXCEPT !.visibility = vis, !.last_level_idx = idx,
                           !.last_level_qty_q = qty,
                           !.qty_ahead_q = IF setAhead THEN qty ELSE @]
       IN mirror_members(IF is_resting(o.state) THEN [s EXCEPT !.orders_[cur] = o1] ELSE s,
                         o.bucket_next, vis, idx, qty, setAhead)

\* The FIFO allocation loop: Ep first advances qty_ahead, what is left fills.
\* The fill raises filled_qty_q in place; apply_fill_ is not called.
RECURSIVE passive_alloc(_, _, _, _, _, _)
passive_alloc(s, side, b, tt, cur, Ep) ==
  IF cur = kInvalidIndex \/ Ep <= 0 THEN s
  ELSE
    LET o == s.orders_[cur]
        next == o.bucket_next
        o1 == [o EXCEPT !.visibility = b.visibility,
                        !.last_level_idx = b.last_level_idx,
                        !.last_level_qty_q = b.last_level_qty_q,
                        !.qty_ahead_q = IF tt THEN 0 ELSE @]
        consume == Min(o1.qty_ahead_q, Ep)
        o2 == [o1 EXCEPT !.qty_ahead_q = @ - consume]
        Ep1 == Ep - consume
        remaining == o2.qty_q - o2.filled_qty_q
        fill == Min(remaining, Ep1)
        o3 == [o2 EXCEPT !.filled_qty_q = @ + fill,
                         !.state = IF o2.filled_qty_q + fill = o2.qty_q
                                   THEN "Filled" ELSE "Partial"]
    IN IF ~is_resting(o.state) THEN passive_alloc(s, side, b, tt, next, Ep)
       ELSE IF o1.qty_ahead_q > 0 /\ Ep1 = 0 THEN [s EXCEPT !.orders_[cur] = o2]
       ELSE IF o2.qty_ahead_q = 0 /\ remaining > 0
       THEN LET s1 == [s EXCEPT !.orders_[cur] = o3]
                s2 == IF o3.state = "Filled"
                      THEN remove_active_(s1, side, o3.id, cur) ELSE s1
            IN passive_alloc(s2, side, b, tt, next, Ep1 - fill)
       ELSE passive_alloc([s EXCEPT !.orders_[cur] = o2], side, b, tt, next, Ep1)

apply_passive_fills_one_bucket_(s, rec, side, bidx) ==
  LET bucket_price_q == s.prices_[side][bidx]
      b == s.buckets_[side][bidx]
      m == level_lookup(rec, side, bucket_price_q)
      SetBucket(vis, idx, qty) ==
        [s EXCEPT !.buckets_[side][bidx].visibility = vis,
                  !.buckets_[side][bidx].last_level_idx = idx,
                  !.buckets_[side][bidx].last_level_qty_q = qty]
  IN IF m.found /\ (b.visibility \in {"Frozen", "Blind"} \/ b.last_level_idx < 0)
     THEN mirror_members(SetBucket("Visible", m.idx, m.qty_q), b.head,
                         "Visible", m.idx, m.qty_q, TRUE)
     ELSE IF ~m.found
     THEN IF m.within_range /\ b.visibility = "Blind"
          THEN mirror_members(SetBucket("Visible", -1, 0), b.head, "Visible", -1, 0, TRUE)
          ELSE IF (m.within_range /\ b.visibility = "Visible" /\ b.last_level_idx >= 0)
                  \/ (~m.within_range /\ b.visibility = "Visible")
          THEN mirror_members(SetBucket("Frozen", -1, 0), b.head, "Frozen", -1, 0, FALSE)
          ELSE s
     ELSE IF b.visibility # "Visible" THEN s
     ELSE LET prev == b.last_level_qty_q
              depl == IF prev > m.qty_q THEN prev - m.qty_q ELSE 0
              Ep == effective_depletion(depl, s.params_.alpha_ppm)
              s1 == SetBucket("Visible", m.idx, m.qty_q)
          IN IF Ep <= 0 \/ b.head = kInvalidIndex THEN s1
             ELSE passive_alloc(s1, side, s1.buckets_[side][bidx],
                                trade_through(side, bucket_price_q,
                                              rec.bids[1].price_q, rec.asks[1].price_q),
                                b.head, Ep)

(***************************************************************************)
(* step(): clock, activation of the due pending orders, queue update.      *)
(***************************************************************************)
\* PendingCmp: earliest activate_ts first, ties by submission sequence.
PendingBeforeWithoutSeq(e, f) == e.activate_ts < f.activate_ts
pending_before(e, f) ==
  e.activate_ts < f.activate_ts \/ (e.activate_ts = f.activate_ts /\ e.seq < f.seq)

\* The entries a min-heap under PendingCmp may have on top.
pending_tops(pending) == {e \in pending : \A f \in pending : ~pending_before(f, e)}

pending_top(pending) == CHOOSE e \in pending_tops(pending) : TRUE

PendingDueStrict(e, now) == e.activate_ts < now
pending_due(e, now) == e.activate_ts <= now

\* Body of the activation loop after the STP check passed for orders_[idx].
ActivateIgnoringLog(s, rec, idx) ==
  LET s1 == push_event_(s, s.now_, s.orders_[idx].id, "Activate", "Active", "None")
      o == init_on_activate(rec, [s1.orders_[idx] EXCEPT !.state = "Active"])
      side == o.side
      s2 == [s1 EXCEPT !.orders_[idx] = o,
                       !.active_pos_[side][o.id] = Len(s1.active_[side]) + 1,
                       !.active_[side] = Append(@, idx)]
      s3 == get_or_insert_bucket_idx_(s2, side, o.price_q)
      s4 == bucket_push_back_(s3, side, find_bucket_idx_(s3, side, o.price_q), idx)
  IN [s4 EXCEPT !.has_active_[side] = TRUE, !.best_active_q_[side] = o.price_q]
activate_one(s, rec, idx) ==
  IF ~push_event_ok(s)
  THEN [unlock_on_cancel_(s, s.orders_[idx])
          EXCEPT !.orders_[idx].state = "Rejected",
                 !.orders_[idx].reject_reason = "InsufficientResources"]
  ELSE LET s1 == push_event_(s, s.now_, s.orders_[idx].id, "Activate", "Active", "None")
           o == init_on_activate(rec, [s1.orders_[idx] EXCEPT !.state = "Active"])
           side == o.side
           s2 == [s1 EXCEPT !.orders_[idx] = o,
                            !.active_pos_[side][o.id] = Len(s1.active_[side]) + 1,
                            !.active_[side] = Append(@, idx)]
           s3 == get_or_insert_bucket_idx_(s2, side, o.price_q)
           s4 == bucket_push_back_(s3, side, find_bucket_idx_(s3, side, o.price_q), idx)
           better == IF side = "Buy" THEN o.price_q > s4.best_active_q_[side]
                     ELSE o.price_q < s4.best_active_q_[side]
       IN IF ~s4.has_active_[side] \/ better
          THEN [s4 EXCEPT !.has_active_[side] = TRUE, !.best_active_q_[side] = o.price_q]
          ELSE s4

\* One pass of the activation loop that does not look at the state of the
\* popped entry's order.
ActivateEntryAnyState(s, rec, e) ==
  LET s1 == [s EXCEPT !.pending_ = @ \ {e}]
      idx == IF e.order_id = 0 \/ e.order_id > s1.params_.max_orders
             THEN kInvalidIndex ELSE s1.id_to_index_[e.order_id]
  IN IF idx = kInvalidIndex THEN s1
     ELSE LET r == apply_stp_on_activate_(s1, idx)
          IN IF ~r.ok THEN r.s ELSE activate_one(r.s, rec, idx)

\* One pass of the activation loop: the entry e is popped and its order, if
\* still Pending, goes through STP and activation.
activate_entry(s, rec, e) ==
  LET s1 == [s EXCEPT !.pending_ = @ \ {e}]
      idx == IF e.order_id = 0 \/ e.order_id > s1.params_.max_orders
             THEN kInvalidIndex ELSE s1.id_to_index_[e.order_id]
  IN IF idx = kInvalidIndex \/ s1.orders_[idx].state # "Pending" THEN s1
     ELSE LET r == apply_stp_on_activate_(s1, idx)
          IN IF ~r.ok THEN r.s ELSE activate_one(r.s, rec, idx)

RECURSIVE activate_due(_, _)
activate_due(s, rec) ==
  IF s.pending_ = {} \/ ~pending_due(pending_top(s.pending_), s.now_) THEN s
  ELSE activate_due(activate_entry(s, rec, pending_top(s.pending_)), rec)

\* The simulators the activation loop can end in when the heap may pop any of
\* the entries that PendingCmp does not order.
RECURSIVE activate_due_outcomes(_, _)
activate_due_outcomes(s, rec) ==
  LET due == {e \in pending_tops(s.pending_) : pending_due(e, s.now_)}
  IN IF due = {} THEN {s}
     ELSE UNION {activate_due_outcomes(activate_entry(s, rec, e), rec) : e \in due}

\* update_one_cached over the members of one bucket, head to tail.
RECURSIVE update_bucket_members(_, _, _, _)
update_bucket_members(s, rec, lvl, cur) ==
  IF cur = kInvalidIndex THEN s
  ELSE LET next == s.orders_[cur].bucket_next
           o == update_one_cached(s.params_, lvl, rec.bids[1].price_q,
                                  rec.asks[1].price_q, s.orders_[cur])
       IN update_bucket_members([s EXCEPT !.orders_[cur] = o], rec, lvl, next)

\* The loop over the ask buckets, ascending prices.
RECURSIVE update_asks(_, _, _)
update_asks(s, rec, i) ==
  IF i > Len(s.prices_["Sell"]) THEN s
  ELSE update_asks(
         update_bucket_members(s, rec, ask_level(rec, s.prices_["Sell"][i]),
                               s.buckets_["Sell"][i].head),
         rec, i + 1)

\* The loop over the bid buckets, descending prices.  In the source the loop
\* over the ask buckets is nested in the body of this loop: it runs once per
\* bid bucket, after that bucket's members.
RECURSIVE update_bids(_, _, _)
update_bids(s, rec, i) ==
  IF i < 1 THEN s
  ELSE update_bids(
         update_asks(
           update_bucket_members(s, rec, bid_level(rec, s.prices_["Buy"][i]),
                                 s.buckets_["Buy"][i].head),
           rec, 1),
         rec, i - 1)

queue_update(s, rec) == update_bids(s, rec, Len(s.prices_["Buy"]))

\* The simulators a step can end in.
step_outcomes(s, rec) ==
  {queue_update(t, rec) : t \in activate_due_outcomes([s EXCEPT !.now_ = rec.ts_recv_ns], rec)}

StepSweepAfterActivation(s, rec) ==
  apply_aggressive_fills_(
    queue_update(activate_due([s EXCEPT !.now_ = rec.ts_recv_ns], rec), rec), rec)
step(s, rec) ==
  queue_update(activate_due([s EXCEPT !.now_ = rec.ts_recv_ns], rec), rec)

(***************************************************************************)
(* reset, place_limit, place_market, cancel.                               *)
(***************************************************************************)
\* reset() leaves fills_ and the four STP summaries as they are.
reset(s, start_ts, initial_ledger) ==
  [s EXCEPT !.now_ = start_ts,
            !.ledger_ = initial_ledger,
            !.orders_ = <<>>,
            !.events_ = <<>>,
            !.pending_ = {},
            !.next_order_id_ = 1,
            !.next_seq_ = 1,
            !.id_to_index_ = [i \in 1..s.params_.max_orders |-> kInvalidIndex],
            !.active_pos_ = [sd \in Sides |->
                               [i \in 1..s.params_.max_orders |-> kInvalidIndex]],
            !.active_ = [sd \in Sides |-> <<>>],
            !.prices_ = [sd \in Sides |-> <<>>],
            !.buckets_ = [sd \in Sides |-> <<>>]]

\* The reject reason of place_limit, "None" when the order is accepted.
PlaceLimitRejectOpenCap(s, req) ==
  IF Cardinality({i \in 1..Len(s.orders_) : ~is_terminal(s.orders_[i].state)})
        >= s.params_.max_orders
  THEN "InsufficientResources"
  ELSE IF validate_limit_(req) # "None" THEN validate_limit_(req)
  ELSE IF ~push_event_ok(s) THEN "InsufficientResources"
  ELSE risk_check_limit_(s, req.side, req.price_q, req.qty_q)
place_limit_reject(s, req) ==
  IF s.next_order_id_ > s.params_.max_orders THEN "InsufficientResources"
  ELSE IF Len(s.orders_) >= s.params_.max_orders THEN "InsufficientResources"
  ELSE IF validate_limit_(req) # "None" THEN validate_limit_(req)
  ELSE IF ~push_event_ok(s) THEN "InsufficientResources"
  ELSE risk_check_limit_(s, req.side, req.price_q, req.qty_q)

place_limit(s, req) ==
  LET rr == place_limit_reject(s, req)
  IN IF rr # "None"
     THEN [s |-> push_event_(s, s.now_, 0, "Reject", "Rejected", rr), ret |-> 0]
     ELSE LET id == s.next_order_id_
              idx == Len(s.orders_) + 1
              o == NewOrder(id, req, s.now_, s.params_.outbound_latency)
              s1 == risk_check_and_lock_limit_(s, req.side, req.price_q, req.qty_q)
              s2 == [s1 EXCEPT !.next_order_id_ = @ + 1,
                               !.orders_ = Append(@, o),
                               !.id_to_index_[id] = idx]
              s3 == push_event_(s2, s2.now_, id, "Submit", "Pending", "None")
          IN [s |-> [s3 EXCEPT !.pending_ = @ \cup {[activate_ts |-> o.activate_ts,
                                                      seq |-> s3.next_seq_,
                                                      order_id |-> id]},
                               !.next_seq_ = @ + 1],
              ret |-> id]

\* Market orders are not supported: always rejected (InvalidParams either way).
place_market(s, req) ==
  [s |-> push_event_(s, s.now_, 0, "Reject", "Rejected", "InvalidParams"), ret |-> 0]

cancel(s, order_id) ==
  LET idx == IF order_id = 0 \/ order_id > s.params_.max_orders
             THEN kInvalidIndex ELSE s.id_to_index_[order_id]
  IN IF idx = kInvalidIndex \/ is_terminal(s.orders_[idx].state) \/ ~push_event_ok(s)
     THEN [s |-> s, ret |-> FALSE]
     ELSE LET o == s.orders_[idx]
              s1 == IF is_resting(o.state) THEN remove_active_(s, o.side, o.id, idx) ELSE s
              s2 == [unlock_on_cancel_(s1, o) EXCEPT !.orders_[idx].state = "Cancelled"]
          IN [s |-> push_event_(s2, s2.now_, o.id, "Cancel", "Cancelled", "None"),
              ret |-> TRUE]

(***************************************************************************)
(* Inputs: configurations, ledgers, requests and snapshots.                *)
(***************************************************************************)
Lv(k, q) == [price_q |-> k * 1000000, qty_q |-> q]

\* Order books offered to step(): a two-sided base book, the same book with
\* both touches depleted, two locked books (the ask side down at the bid touch,
\* the bid side up at the ask touch) and a one-sided book.
Books ==
  << [bids |-> <<Lv(2, 200), Lv(1, 200)>>, asks |-> <<Lv(3, 200), Lv(4, 200)>>],
     [bids |-> <<Lv(2, 100), Lv(1, 200)>>, asks |-> <<Lv(3, 100), Lv(4, 200)>>],
     [bids |-> <<Lv(2, 100), Lv(1, 200)>>, asks |-> <<Lv(2, 100), Lv(3, 200)>>],
     [bids |-> <<Lv(3, 100), Lv(1, 200)>>, asks |-> <<Lv(3, 100), Lv(4, 200)>>],
     [bids |-> <<>>, asks |-> <<Lv(4, 200)>>] >>

Trunc(ladder) == SubSeq(ladder, 1, Min(Len(ladder), Depth))
Snapshot(b, ts) == make_record(ts, Trunc(Books[b].bids), Trunc(Books[b].asks))

\* Requests of 200 on both sides at two prices, an invalid request of quantity 0,
\* and a small buy that one passive allocation can fill completely.
Requests ==
  [side : Sides, price_q : {2000000, 3000000}, qty_q : {200}]
    \cup {[side |-> "Buy", price_q |-> 2000000, qty_q |-> 0],
          [side |-> "Buy", price_q |-> 2000000, qty_q |-> 50]}

InitialLedger ==
  [cash_q |-> 1000000000, position_qty_q |-> 400,
   locked_cash_q |-> 0, locked_position_qty_q |-> 0]

Params(stp, latency, alpha, events) ==
  [outbound_latency |-> latency, max_orders |-> MaxOrders, max_events |-> events,
   alpha_ppm |-> alpha, stp |-> stp,
   fees |-> [maker_fee_ppm |-> 100000, taker_fee_ppm |-> 250000],
   risk |-> [spot_no_short |-> TRUE]]

\* The object after construction: every member at its default initialiser.
Constructed(params) ==
  [params_ |-> params, now_ |-> 0,
   ledger_ |-> [cash_q |-> 0, position_qty_q |-> 0,
                locked_cash_q |-> 0, locked_position_qty_q |-> 0],
   orders_ |-> <<>>, events_ |-> <<>>, fills_ |-> <<>>, pending_ |-> {},
   next_order_id_ |-> 1, next_seq_ |-> 1,
   id_to_index_ |-> [i \in 1..params.max_orders |-> kInvalidIndex],
   active_ |-> [sd \in Sides |-> <<>>],
   active_pos_ |-> [sd \in Sides |-> [i \in 1..params.max_orders |-> kInvalidIndex]],
   prices_ |-> [sd \in Sides |-> <<>>],
   buckets_ |-> [sd \in Sides |-> <<>>],
   has_active_ |-> [sd \in Sides |-> FALSE],
   best_active_q_ |-> [sd \in Sides |-> 0],
   defer_bucket_erase_ |-> FALSE]

(***************************************************************************)
(* State: the simulator, and for the properties the simulator before the   *)
(* last operation together with that operation and its result.             *)
(***************************************************************************)
VARIABLES sim, pre, last, nops
vars == <<sim, pre, last, nops>>

NoReq == [side |-> "Buy", price_q |-> 0, qty_q |-> 0]
NoRec == make_record(0, <<>>, <<>>)
NoOp == [op |-> "none", req |-> NoReq, rec |-> NoRec, id |-> 0, side |-> "Buy", ret |-> 0]

InitWith(params) ==
  /\ sim = reset(Constructed(params), 0, InitialLedger)
  /\ pre = sim
  /\ last = NoOp
  /\ nops = 0

Did(s, l) ==
  /\ nops < MaxOps
  /\ sim' = s
  /\ pre' = sim
  /\ last' = l
  /\ nops' = nops + 1

PlaceLimit ==
  \E req \in Requests :
    LET r == place_limit(sim, req)
    IN Did(r.s, [NoOp EXCEPT !.op = "place_limit", !.req = req, !.ret = r.ret])

PlaceMarket ==
  LET r == place_market(sim, [side |-> "Buy", qty_q |-> 200])
  IN Did(r.s, [NoOp EXCEPT !.op = "place_market", !.ret = r.ret])

Cancel ==
  \E id \in 1..MaxOrders :
    LET r == cancel(sim, id)
    IN Did(r.s, [NoOp EXCEPT !.op = "cancel", !.id = id, !.ret = IF r.ret THEN 1 ELSE 0])

Step ==
  \E b \in 1..Len(Books), dt \in {0, 1} :
    LET rec == Snapshot(b, sim.now_ + dt)
    IN Did(step(sim, rec), [NoOp EXCEPT !.op = "step", !.rec = rec])

Reset ==
  /\ sim.events_ # <<>>
  /\ Did(reset(sim, 0, InitialLedger), [NoOp EXCEPT !.op = "reset"])

Next == PlaceLimit \/ PlaceMarket \/ Cancel \/ Step \/ Reset

\* The base configuration: STP RejectIncoming, no latency, alpha = 1.
Init == InitWith(Params("RejectIncoming", 0, 1000000, MaxEvents))

Spec == Init /\ [][Next]_vars

\* With and without outbound latency.
InitLatency ==
  \E latency \in {0, 2} : InitWith(Params("RejectIncoming", latency, 1000000, MaxEvents))

SpecLatency == InitLatency /\ [][Next]_vars

\* STP CancelResting with event logs that fill up after one activation, that
\* fill up while three orders are handled, and that are ample.
InitCancelResting ==
  \E events \in {MinEvents} \cup ((MaxEvents - 2)..MaxEvents) :
     InitWith(Params("CancelResting", 0, 500000, events))

SpecCancelResting == InitCancelResting /\ [][Next]_vars

\* The fill routines are private members that step() never calls.  These two
\* actions apply them to the current simulator and a snapshot, the arguments a
\* step would hand them: one bucket of one side, resp. the whole book.
PassiveFills ==
  \E side \in Sides, b \in 1..Len(Books) :
    \E bidx \in 1..Len(sim.prices_[side]) :
      LET rec == Snapshot(b, sim.now_)
      IN Did(apply_passive_fills_one_bucket_(sim, rec, side, bidx),
             [NoOp EXCEPT !.op = "passive", !.rec = rec, !.side = side, !.id = bidx])

AggressiveFills ==
  \E b \in 1..Len(Books) :
    LET rec == Snapshot(b, sim.now_)
    IN Did(apply_aggressive_fills_(sim, rec), [NoOp EXCEPT !.op = "aggressive", !.rec = rec])

NextFills == Next \/ PassiveFills \/ AggressiveFills

\* No STP, so that both sides can rest; alpha = 1/2.
InitFills == InitWith(Params("None", 0, 500000, MaxEvents))

SpecFills == InitFills /\ [][NextFills]_vars

\* Submissions for the rejection rules: two valid requests (a second buy
\* exceeds the free cash, a third sell the free position), a buy whose lock
\* product overflows, and requests with price 0 and with quantity 0.
RiskRequests ==
  {[side |-> "Buy", price_q |-> 3000000, qty_q |-> 200],
   [side |-> "Sell", price_q |-> 2000000, qty_q |-> 200],
   [side |-> "Buy", price_q |-> 3000000, qty_q |-> 1000],
   [side |-> "Sell", price_q |-> 0, qty_q |-> 200],
   [side |-> "Buy", price_q |-> 2000000, qty_q |-> 0]}

PlaceLimitRisk ==
  \E req \in RiskRequests :
    LET r == place_limit(sim, req)
    IN Did(r.s, [NoOp EXCEPT !.op = "place_limit", !.req = req, !.ret = r.ret])

NextRisk == PlaceLimitRisk \/ PlaceMarket \/ Cancel \/ Step \/ Reset

\* With and without the no-short rule, with a short and an ample event log.
InitRisk ==
  \E no_short \in BOOLEAN, events \in {MinEvents, MaxEvents} :
     InitWith([Params("None", 0, 1000000, events) EXCEPT !.risk.spot_no_short = no_short])

SpecRisk == InitRisk /\ [][NextRisk]_vars

\* Instances with a smaller order store, so that the cap is reached while
\* operations are left; the fill routines are applied as in SpecFills.
InitCap ==
  \E n \in 1..(MaxOrders - 1) :
     InitWith([Params("RejectIncoming", 0, 1000000, MaxEvents) EXCEPT !.max_orders = n])

SpecCap == InitCap /\ [][NextFills]_vars

\* Both STP policies that act, with and without outbound latency, so that
\* orders stay Pending across steps in which other orders activate; the fill
\* routines are applied as in SpecFills.
InitPending ==
  \E stp \in {"RejectIncoming", "CancelResting"}, latency \in {0, 2} :
     InitWith(Params(stp, latency, 500000, MaxEvents))

SpecPending == InitPending /\ [][NextFills]_vars

\* Submissions of 50 and of 200 that cross the books, so that sweeps fill
\* quantities whose product with the price is no multiple of the price scale.
OddLotRequests ==
  [side : {"Buy"}, price_q : {3000000}, qty_q : {50, 200}]
    \cup [side : {"Sell"}, price_q : {2000000}, qty_q : {50, 200}]

PlaceLimitOddLot ==
  \E req \in OddLotRequests :
    LET r == place_limit(sim, req)
    IN Did(r.s, [NoOp EXCEPT !.op = "place_limit", !.req = req, !.ret = r.ret])

NextOddLots ==
  \/ PlaceLimitOddLot \/ PlaceMarket \/ Cancel \/ Step \/ Reset
  \/ PassiveFills \/ AggressiveFills

SpecOddLots == InitFills /\ [][NextOddLots]_vars

\* The snapshots of the depletion test: bid 99 below a best bid of 100, showing
\* 40, then 39, then 20; a book whose best ask came down to 99 while the
\* bid at 99 shows 20; and the crossing snapshot of the FIFO test, bid 99
\* still showing 40 under a best bid of 100 with the best ask at 99 for 10.
AlphaBooks ==
  << [bids |-> <<[price_q |-> 100, qty_q |-> 10], [price_q |-> 99, qty_q |-> 40]>>,
      asks |-> <<[price_q |-> 101, qty_q |-> 10]>>],
     [bids |-> <<[price_q |-> 100, qty_q |-> 10], [price_q |-> 99, qty_q |-> 39]>>,
      asks |-> <<[price_q |-> 101, qty_q |-> 10]>>],
     [bids |-> <<[price_q |-> 100, qty_q |-> 10], [price_q |-> 99, qty_q |-> 20]>>,
      asks |-> <<[price_q |-> 101, qty_q |-> 10]>>],
     [bids |-> <<[price_q |-> 99, qty_q |-> 20]>>,
      asks |-> <<[price_q |-> 99, qty_q |-> 10]>>],
     [bids |-> <<[price_q |-> 100, qty_q |-> 10], [price_q |-> 99, qty_q |-> 40]>>,
      asks |-> <<[price_q |-> 99, qty_q |-> 10]>>] >>

AlphaSnapshot(b, ts) == make_record(ts, Trunc(AlphaBooks[b].bids), Trunc(AlphaBooks[b].asks))

\* The bids of the test: 5 at 99, and a second one of 2.
AlphaRequests == [side : {"Buy"}, price_q : {99}, qty_q : {2, 5}]

PlaceLimitAlpha ==
  \E req \in AlphaRequests :
    LET r == place_limit(sim, req)
    IN Did(r.s, [NoOp EXCEPT !.op = "place_limit", !.req = req, !.ret = r.ret])

StepAlpha ==
  \E b \in 1..Len(AlphaBooks) :
    LET rec == AlphaSnapshot(b, sim.now_)
    IN Did(step(sim, rec), [NoOp EXCEPT !.op = "step", !.rec = rec])

PassiveFillsAlpha ==
  \E b \in 1..Len(AlphaBooks) :
    \E bidx \in 1..Len(sim.prices_["Buy"]) :
      LET rec == AlphaSnapshot(b, sim.now_)
      IN Did(apply_passive_fills_one_bucket_(sim, rec, "Buy", bidx),
             [NoOp EXCEPT !.op = "passive", !.rec = rec, !.side = "Buy", !.id = bidx])

NextAlpha == PlaceLimitAlpha \/ StepAlpha \/ PassiveFillsAlpha \/ Cancel

\* alpha = 0, 1/2, 1 and 3/2.
InitAlpha ==
  \E alpha \in {0, 500000, 1000000, 1500000} : InitWith(Params("None", 0, alpha, MaxEvents))

SpecAlpha == InitAlpha /\ [][NextAlpha]_vars

\* No STP, latency 0 or 2 and alpha = 1, with the fill routines: a depletion is
\* large enough to fill more than one member of a bucket.
InitFifo ==
  \E latency \in {0, 2} : InitWith(Params("None", latency, 1000000, MaxEvents))

SpecFifo == InitFifo /\ [][NextFills]_vars

\* STP CancelResting with the fill routines, alpha = 1, and an event log of 3
\* or of MaxEvents entries.
InitIntegrity ==
  \E events \in {MinEvents, MaxEvents} : InitWith(Params("CancelResting", 0, 1000000, events))

SpecIntegrity == InitIntegrity /\ [][NextFills]_vars

\* Snapshots for the aggressive sweep: the base book, a book whose bid side
\* came up to 3000000 with more than two orders' worth of quantity, a book
\* with an empty bid side whose best ask came down to 2000000, and a two-sided
\* book whose ask side came down to 2000000 with more than one order's worth.
SweepBooks ==
  << [bids |-> <<Lv(2, 200), Lv(1, 200)>>, asks |-> <<Lv(3, 200), Lv(4, 200)>>],
     [bids |-> <<Lv(3, 500), Lv(2, 200)>>, asks |-> <<Lv(4, 200)>>],
     [bids |-> <<>>, asks |-> <<Lv(2, 100), Lv(3, 200)>>],
     [bids |-> <<Lv(1, 200)>>, asks |-> <<Lv(2, 300), Lv(3, 200)>>] >>

SweepSnapshot(b, ts) == make_record(ts, Trunc(SweepBooks[b].bids), Trunc(SweepBooks[b].asks))

StepSweepBooks ==
  \E b \in 1..Len(SweepBooks) :
    LET rec == SweepSnapshot(b, sim.now_)
    IN Did(step(sim, rec), [NoOp EXCEPT !.op = "step", !.rec = rec])

AggressiveFillsSweepBooks ==
  \E b \in 1..Len(SweepBooks) :
    LET rec == SweepSnapshot(b, sim.now_)
    IN Did(apply_aggressive_fills_(sim, rec), [NoOp EXCEPT !.op = "aggressive", !.rec = rec])

NextSweep == PlaceLimit \/ Cancel \/ StepSweepBooks \/ AggressiveFillsSweepBooks

SpecSweep == InitFills /\ [][NextSweep]_vars

(***************************************************************************)
(* Observations shared by the properties.                                  *)
(***************************************************************************)
\* Orders that were Pending before the last operation, a step, and left it
\* activated (resting or already filled).
ActivatedInStep ==
  IF last.op # "step" THEN {}
  ELSE {i \in 1..Len(sim.orders_) :
          /\ pre.orders_[i].state = "Pending"
          /\ sim.orders_[i].state \in {"Active", "Partial", "Filled"}}

\* The FillEvents appended by the last operation.
NewFills ==
  IF Len(sim.fills_) <= Len(pre.fills_) THEN <<>>
  ELSE SubSeq(sim.fills_, Len(pre.fills_) + 1, Len(sim.fills_))

\* The lifecycle events appended by the last operation.
NewEvents ==
  IF Len(sim.events_) <= Len(pre.events_) THEN <<>>
  ELSE SubSeq(sim.events_, Len(pre.events_) + 1, Len(sim.events_))

C2_ActivationIsLastPhase ==
  \A i \in ActivatedInStep :
     sim.orders_[i] =
        [init_on_activate(last.rec, [pre.orders_[i] EXCEPT !.state = "Active"])
           EXCEPT !.bucket_prev = sim.orders_[i].bucket_prev,
                  !.bucket_next = sim.orders_[i].bucket_next]

\* C3: an accepted order gets activate_ts = submission clock + outbound latency
\* and is Pending; a step with ts_recv < activate_ts leaves a Pending order
\* Pending; a step with ts_recv >= activate_ts leaves it Active or Rejected.
C3_LatencyGating ==
  /\ (last.op = "place_limit" /\ last.ret # 0) =>
        /\ sim.orders_[last.ret].activate_ts = pre.now_ + sim.params_.outbound_latency
        /\ sim.orders_[last.ret].state = "Pending"
  /\ last.op = "step" =>
        \A i \in 1..Len(sim.orders_) :
           pre.orders_[i].state = "Pending" =>
              IF last.rec.ts_recv_ns < pre.orders_[i].activate_ts
              THEN sim.orders_[i].state = "Pending"
              ELSE sim.orders_[i].state \in {"Active", "Rejected"}

\* C3 witness: under a positive latency an order that an earlier step left
\* Pending is activated by the first step whose timestamp reaches activate_ts.
C3_Witness ==
  /\ last.op = "step"
  /\ \E i \in 1..Len(sim.orders_) :
        /\ pre.orders_[i].state = "Pending"
        /\ pre.orders_[i].submit_ts < pre.now_
        /\ pre.now_ < pre.orders_[i].activate_ts
        /\ last.rec.ts_recv_ns = pre.orders_[i].activate_ts
        /\ sim.orders_[i].state = "Active"


\* Orders that a step found Pending and due, and the only such order if any.
DueInStep ==
  IF last.op # "step" THEN {}
  ELSE {i \in 1..Len(pre.orders_) :
          /\ pre.orders_[i].state = "Pending"
          /\ pre.orders_[i].activate_ts <= last.rec.ts_recv_ns}

\* The resting opposite-side orders of s whose price crosses order o (inclusive).
CrossingResting(s, o) ==
  {j \in 1..Len(s.orders_) :
     /\ s.orders_[j].state \in {"Active", "Partial"}
     /\ s.orders_[j].side # o.side
     /\ IF o.side = "Buy" THEN s.orders_[j].price_q <= o.price_q
        ELSE s.orders_[j].price_q >= o.price_q}

\* Order i is referenced by an active set, a bucket or a neighbour's link.
Linked(s, i) ==
  \/ s.orders_[i].bucket_prev # kInvalidIndex
  \/ s.orders_[i].bucket_next # kInvalidIndex
  \/ \E sd \in Sides :
        \/ s.active_pos_[sd][s.orders_[i].id] # kInvalidIndex
        \/ \E k \in 1..Len(s.active_[sd]) : s.active_[sd][k] = i
        \/ \E b \in 1..Len(s.buckets_[sd]) :
              s.buckets_[sd][b].head = i \/ s.buckets_[sd][b].tail = i

\* The reservation held for the unfilled remainder of an order.
LockedCashOf(o) ==
  IF o.side = "Buy" THEN o.price_q * (o.qty_q - o.filled_qty_q) ELSE 0
LockedPositionOf(o) ==
  IF o.side = "Sell" THEN o.qty_q - o.filled_qty_q ELSE 0

RECURSIVE SumLockedCash(_, _)
SumLockedCash(s, set) ==
  IF set = {} THEN 0
  ELSE LET j == CHOOSE x \in set : TRUE
       IN LockedCashOf(s.orders_[j]) + SumLockedCash(s, set \ {j})

RECURSIVE SumLockedPosition(_, _)
SumLockedPosition(s, set) ==
  IF set = {} THEN 0
  ELSE LET j == CHOOSE x \in set : TRUE
       IN LockedPositionOf(s.orders_[j]) + SumLockedPosition(s, set \ {j})

\* The last step released exactly the locks of the orders in `set`.
Released(set) ==
  /\ sim.ledger_.locked_cash_q = pre.ledger_.locked_cash_q - SumLockedCash(pre, set)
  /\ sim.ledger_.locked_position_qty_q =
        pre.ledger_.locked_position_qty_q - SumLockedPosition(pre, set)

EventsFor(id, type) ==
  {k \in 1..Len(NewEvents) : NewEvents[k].order_id = id /\ NewEvents[k].type = type}

\* C4 (as claimed), for a step that activates one order i under RejectIncoming:
\* if a resting opposite-side order crosses i then i becomes Rejected with
\* SelfTradePrevention, its lock is released, a Reject event is appended, it is
\* not linked and every resting order keeps its state; otherwise i activates.
C4_RejectIncoming ==
  (sim.params_.stp = "RejectIncoming" /\ Cardinality(DueInStep) = 1) =>
     \A i \in DueInStep :
        IF CrossingResting(pre, pre.orders_[i]) # {}
        THEN /\ sim.orders_[i].state = "Rejected"
             /\ sim.orders_[i].reject_reason = "SelfTradePrevention"
             /\ Released({i})
             /\ EventsFor(sim.orders_[i].id, "Reject") # {}
             /\ ~Linked(sim, i)
             /\ \A j \in 1..Len(pre.orders_) :
                   pre.orders_[j].state \in {"Active", "Partial"} =>
                      sim.orders_[j].state = pre.orders_[j].state
        ELSE sim.orders_[i].state = "Active"

RECURSIVE FillsCash(_)
FillsCash(fills) ==
  IF fills = <<>> THEN 0
  ELSE LET f == Head(fills)
       IN (IF f.side = "Buy" THEN 0 - (f.notional_cash_q + f.fee_cash_q)
           ELSE f.notional_cash_q - f.fee_cash_q) + FillsCash(Tail(fills))

RECURSIVE FillsPosition(_)
FillsPosition(fills) ==
  IF fills = <<>> THEN 0
  ELSE LET f == Head(fills)
       IN (IF f.side = "Buy" THEN f.qty_q ELSE 0 - f.qty_q) + FillsPosition(Tail(fills))

RECURSIVE FilledBy(_, _)
FilledBy(fills, id) ==
  IF fills = <<>> THEN 0
  ELSE (IF Head(fills).order_id = id THEN Head(fills).qty_q ELSE 0)
       + FilledBy(Tail(fills), id)

\* C7 (as claimed): in every reachable state the filled quantity of every order
\* equals the sum of the quantities of the FillEvents carrying its id.
C7_FilledEqualsFillEvents ==
  \A i \in 1..Len(sim.orders_) :
     sim.orders_[i].filled_qty_q = FilledBy(sim.fills_, sim.orders_[i].id)

\* C8 (as claimed): locked cash and locked position are >= 0 and equal the
\* reservations for the unfilled remainder of the non-terminal orders (hence
\* zero once every order is terminal).
C8_LockLifecycle ==
  LET open == {i \in 1..Len(sim.orders_) :
                 sim.orders_[i].state \notin {"Filled", "Cancelled", "Rejected"}}
  IN /\ sim.ledger_.locked_cash_q >= 0
     /\ sim.ledger_.locked_position_qty_q >= 0
     /\ sim.ledger_.locked_cash_q = SumLockedCash(sim, open)
     /\ sim.ledger_.locked_position_qty_q = SumLockedPosition(sim, open)

\* C9 (as claimed): when the passive allocator gives an order fill quantity,
\* the bucket price is found in the snapshot, the bucket was Visible with a
\* recorded slot before, the displayed quantity fell, the order's qty_ahead is 0
\* afterwards, the quantity is at most the effective depletion, and the fill is
\* recorded at the bucket price with the Maker flag.
C9_PassiveFillPreconditions ==
  last.op = "passive" =>
     \A i \in 1..Len(sim.orders_) :
        LET fill == sim.orders_[i].filled_qty_q - pre.orders_[i].filled_qty_q
            b == pre.buckets_[last.side][last.id]
            price_q == pre.prices_[last.side][last.id]
            m == level_lookup(last.rec, last.side, price_q)
        IN fill > 0 =>
              /\ pre.orders_[i].price_q = price_q
              /\ m.found
              /\ b.visibility = "Visible" /\ b.last_level_idx >= 0
              /\ m.qty_q < b.last_level_qty_q
              /\ sim.orders_[i].qty_ahead_q = 0
              /\ fill <= effective_depletion(b.last_level_qty_q - m.qty_q,
                                             sim.params_.alpha_ppm)
              /\ \E k \in 1..Len(NewFills) :
                    /\ NewFills[k].order_id = sim.orders_[i].id
                    /\ NewFills[k].price_q = price_q
                    /\ NewFills[k].liq = "Maker"
                    /\ NewFills[k].qty_q = fill

\* The members of a bucket, head first.
RECURSIVE Chain(_, _)
Chain(s, cur) ==
  IF cur = kInvalidIndex THEN <<>> ELSE <<cur>> \o Chain(s, s.orders_[cur].bucket_next)

RECURSIVE Taken(_)
Taken(members) ==
  IF members = <<>> THEN 0
  ELSE LET i == Head(members)
       IN (pre.orders_[i].qty_ahead_q - sim.orders_[i].qty_ahead_q)
          + (sim.orders_[i].filled_qty_q - pre.orders_[i].filled_qty_q)
          + Taken(Tail(members))

\* C10 (as claimed): over a step, for every bucket whose price is found in the
\* snapshot without trade-through and whose members all recorded the same
\* previous displayed quantity, the members' queue advance plus passive fill
\* sums to at most the one effective depletion of the level, and a member gets
\* any of it only if every member ahead of it ended the step Filled.
C10_NoDoubleDepletion ==
  last.op = "step" =>
     \A sd \in Sides : \A b \in 1..Len(pre.buckets_[sd]) :
        LET members == Chain(pre, pre.buckets_[sd][b].head)
            price_q == pre.prices_[sd][b]
            m == level_lookup(last.rec, sd, price_q)
            prev == pre.orders_[members[1]].last_level_qty_q
            eff == effective_depletion(IF prev > m.qty_q THEN prev - m.qty_q ELSE 0,
                                       sim.params_.alpha_ppm)
        IN (/\ m.found
            /\ ~trade_through(sd, price_q, last.rec.bids[1].price_q,
                              last.rec.asks[1].price_q)
            /\ \A k \in 1..Len(members) :
                  /\ pre.orders_[members[k]].visibility = "Visible"
                  /\ pre.orders_[members[k]].last_level_idx >= 0
                  /\ pre.orders_[members[k]].last_level_qty_q = prev)
           => /\ Taken(members) <= eff
              /\ \A k \in 2..Len(members) :
                    Taken(<<members[k]>>) > 0 =>
                       \A h \in 1..(k - 1) : sim.orders_[members[h]].state = "Filled"

\* C11: for every order 0 <= filled <= original; the state is Filled iff
\* filled = original, and a Partial order has 0 < filled < original.
C11_FilledWithinQuantity ==
  \A i \in 1..Len(sim.orders_) :
     LET o == sim.orders_[i]
     IN /\ 0 <= o.filled_qty_q /\ o.filled_qty_q <= o.qty_q
        /\ (o.state = "Filled") <=> (o.filled_qty_q = o.qty_q)
        /\ o.state = "Partial" => (0 < o.filled_qty_q /\ o.filled_qty_q < o.qty_q)

\* C11 witness: an order that an earlier fill left Partial is completed by a
\* sweep and is Filled with filled = original.
C11_Witness ==
  /\ last.op = "aggressive"
  /\ \E i \in 1..Len(sim.orders_) :
        /\ pre.orders_[i].state = "Partial"
        /\ sim.orders_[i].state = "Filled"
        /\ sim.orders_[i].filled_qty_q = sim.orders_[i].qty_q

\* The members of a bucket, head first, following at most n links.
RECURSIVE ChainUpTo(_, _, _)
ChainUpTo(s, cur, n) ==
  IF cur = kInvalidIndex \/ n = 0 THEN <<>>
  ELSE <<cur>> \o ChainUpTo(s, s.orders_[cur].bucket_next, n - 1)

\* The (side, bucket, position) triples at which order i is a bucket member.
MemberAt(s, i) ==
  {t \in {<<sd, b, k>> : sd \in Sides, b \in 1..Len(s.orders_), k \in 1..(Len(s.orders_) + 1)} :
     /\ t[2] <= Len(s.buckets_[t[1]])
     /\ LET c == ChainUpTo(s, s.buckets_[t[1]][t[2]].head, Len(s.orders_) + 1)
        IN t[3] <= Len(c) /\ c[t[3]] = i}

\* The (side, position) pairs at which order i sits in an active set.
ActiveAt(s, i) ==
  {t \in {<<sd, k>> : sd \in Sides, k \in 1..Len(s.orders_)} :
     t[2] <= Len(s.active_[t[1]]) /\ s.active_[t[1]][t[2]] = i}

\* C12: after every public operation an order is a bucket member iff it is
\* Active or Partial; a resting order is a member exactly once, of a bucket of
\* its own side whose price is the order's price, and sits once in its side's
\* active set; Pending and terminal orders are in no bucket and no active set.
C12_LinkedIffResting ==
  \A i \in 1..Len(sim.orders_) :
     LET o == sim.orders_[i]
     IN IF o.state \in {"Active", "Partial"}
        THEN /\ Cardinality(MemberAt(sim, i)) = 1
             /\ \A t \in MemberAt(sim, i) :
                   t[1] = o.side /\ sim.prices_[t[1]][t[2]] = o.price_q
             /\ Cardinality(ActiveAt(sim, i)) = 1
             /\ \A t \in ActiveAt(sim, i) :
                   t[1] = o.side /\ sim.active_pos_[o.side][o.id] = t[2]
        ELSE /\ MemberAt(sim, i) = {}
             /\ ActiveAt(sim, i) = {}
             /\ \A sd \in Sides : sim.active_pos_[sd][o.id] = kInvalidIndex

\* C12 witness: cancel took the head out of a bucket of two resting orders; the
\* other order is still a member of that bucket.
C12_Witness ==
  /\ last.op = "cancel" /\ last.ret = 1
  /\ pre.orders_[last.id].state = "Active"
  /\ pre.orders_[last.id].bucket_next # kInvalidIndex
  /\ sim.orders_[last.id].state = "Cancelled"
  /\ sim.orders_[pre.orders_[last.id].bucket_next].state = "Active"

\* The outcome of place_limit(req) on s immediately followed by cancel of the
\* returned id: the simulator in between and after, and cancel's result.
RoundTrip(s, req) ==
  LET p == place_limit(s, req)
      c == cancel(p.s, p.ret)
  IN [accepted |-> p.ret # 0, id |-> p.ret, mid |-> p.s, cancelled |-> c.ret, s |-> c.s]

\* After the round trip r from s: the ledger is the one before the submission,
\* exactly a Submit and a Cancel event for the id were appended, and the order
\* is Cancelled and in no active set.
RoundTripRestores(s, r) ==
  /\ r.s.ledger_ = s.ledger_
  /\ Len(r.s.events_) = Len(s.events_) + 2
  /\ r.s.events_[Len(s.events_) + 1].type = "Submit"
  /\ r.s.events_[Len(s.events_) + 1].order_id = r.id
  /\ r.s.events_[Len(s.events_) + 2].type = "Cancel"
  /\ r.s.events_[Len(s.events_) + 2].order_id = r.id
  /\ r.s.orders_[r.s.id_to_index_[r.id]].state = "Cancelled"
  /\ \A sd \in Sides : r.s.active_pos_[sd][r.id] = kInvalidIndex

\* No operation other than reset touches an order that was Cancelled before
\* it, or appends an event for it: a cancelled order is never activated.
CancelledStays ==
  last.op \notin {"none", "reset"} =>
     \A i \in 1..Len(pre.orders_) :
        pre.orders_[i].state = "Cancelled" =>
           /\ sim.orders_[i] = pre.orders_[i]
           /\ \A k \in 1..Len(NewEvents) : NewEvents[k].order_id # pre.orders_[i].id

\* C13 (as claimed): in every reachable state, an accepted place_limit
\* immediately followed by cancel of that order restores the ledger, appends
\* one Submit and one Cancel event, and the order is never activated.
C13_RoundTripAlways ==
  /\ \A req \in Requests :
        LET r == RoundTrip(sim, req)
        IN r.accepted => RoundTripRestores(sim, r)
  /\ CancelledStays

\* C13 (amended): the same whenever the event log has room for the Cancel
\* event after the Submit event; when it has not, cancel returns false and the
\* order stays Pending with its lock.  A cancelled order is left alone by every
\* later operation, and the cancel of a Pending order that was performed
\* released exactly the order's reservation and appended exactly one Cancel
\* event.
C13_RoundTrip ==
  /\ \A req \in Requests :
        LET r == RoundTrip(sim, req)
        IN r.accepted =>
              IF push_event_ok(r.mid)
              THEN r.cancelled /\ RoundTripRestores(sim, r)
              ELSE /\ ~r.cancelled
                   /\ r.s = r.mid
                   /\ r.s.orders_[r.s.id_to_index_[r.id]].state = "Pending"
  /\ CancelledStays
  /\ (last.op = "cancel" /\ last.ret = 1 /\ pre.orders_[last.id].state = "Pending") =>
        /\ Released({last.id})
        /\ sim.ledger_.cash_q = pre.ledger_.cash_q
        /\ sim.ledger_.position_qty_q = pre.ledger_.position_qty_q
        /\ Len(NewEvents) = 1 /\ NewEvents[1].type = "Cancel"
        /\ NewEvents[1].order_id = last.id

\* C13 witness: the cancel of a still Pending order directly after its
\* submission (its Submit event is the last event before the cancel), with
\* another order's lock in the ledger.
C13_Witness ==
  /\ last.op = "cancel" /\ last.ret = 1
  /\ pre.orders_[last.id].state = "Pending"
  /\ pre.events_[Len(pre.events_)].type = "Submit"
  /\ pre.events_[Len(pre.events_)].order_id = last.id
  /\ sim.orders_[last.id].state = "Cancelled"
  /\ sim.ledger_.locked_cash_q > 0
  /\ sim.ledger_.locked_cash_q < pre.ledger_.locked_cash_q

\* C14: cancel returns true iff the order moved to Cancelled and a Cancel
\* event was recorded.  It returns false and changes nothing when the id is 0,
\* out of range or unknown, when the order is terminal, or when the event log
\* is full; otherwise the order is unlinked, exactly its remaining lock is
\* released, cash and position stay, and exactly one Cancel event is appended.
C14_Cancel ==
  /\ cancel(sim, 0) = [s |-> sim, ret |-> FALSE]
  /\ cancel(sim, MaxOrders + 1) = [s |-> sim, ret |-> FALSE]
  /\ last.op = "cancel" =>
        LET known == last.id <= Len(pre.orders_)
            room == Len(pre.events_) < pre.params_.max_events
        IN IF last.ret = 1
           THEN /\ known /\ room
                /\ ~is_terminal(pre.orders_[last.id].state)
                /\ sim.orders_[last.id].state = "Cancelled"
                /\ Len(NewEvents) = 1
                /\ NewEvents[1].type = "Cancel" /\ NewEvents[1].order_id = last.id
                /\ ~Linked(sim, last.id)
                /\ Released({last.id})
                /\ sim.ledger_.locked_cash_q <= pre.ledger_.locked_cash_q
                /\ sim.ledger_.locked_position_qty_q <= pre.ledger_.locked_position_qty_q
                /\ sim.ledger_.cash_q = pre.ledger_.cash_q
                /\ sim.ledger_.position_qty_q = pre.ledger_.position_qty_q
                /\ \A j \in 1..Len(pre.orders_) :
                      j # last.id => sim.orders_[j].state = pre.orders_[j].state
           ELSE /\ sim = pre
                /\ \/ ~known
                   \/ ~room
                   \/ is_terminal(pre.orders_[last.id].state)

\* C14 witness: cancel of the only member of a bucket returned true; the order
\* is Cancelled and its bucket is gone.
C14_Witness ==
  /\ last.op = "cancel" /\ last.ret = 1
  /\ pre.orders_[last.id].state = "Active"
  /\ sim.orders_[last.id].state = "Cancelled"
  /\ \E sd \in Sides : Len(sim.prices_[sd]) < Len(pre.prices_[sd])

\* Number of Submit events in a log: the submissions accepted since the reset.
RECURSIVE Submitted(_)
Submitted(events) ==
  IF events = <<>> THEN 0
  ELSE (IF Head(events).type = "Submit" THEN 1 ELSE 0) + Submitted(Tail(events))

InvalidRequest(req) ==
  \/ req.price_q <= 0 \/ req.qty_q <= 0
  \/ req.side = "Buy" /\ req.price_q > kI64Max \div req.qty_q

LacksFunds(s, req) ==
  /\ ~InvalidRequest(req)
  /\ IF req.side = "Buy"
     THEN s.ledger_.cash_q - s.ledger_.locked_cash_q < req.price_q * req.qty_q
     ELSE /\ s.params_.risk.spot_no_short
          /\ s.ledger_.position_qty_q - s.ledger_.locked_position_qty_q < req.qty_q

LacksResources(s) ==
  \/ Len(s.orders_) >= s.params_.max_orders
  \/ Len(s.events_) >= s.params_.max_events

\* The last operation changed nothing but the event log, to which it appended
\* at most one event, a Reject without order id.
OnlyLoggedReject ==
  /\ sim = [pre EXCEPT !.events_ = sim.events_]
  /\ Len(NewEvents) <= 1
  /\ Len(sim.events_) = Len(pre.events_) + Len(NewEvents)
  /\ \A k \in 1..Len(NewEvents) :
        NewEvents[k].type = "Reject" /\ NewEvents[k].order_id = 0

C17_NoSilentRejection ==
  /\ (last.op \in {"place_limit", "place_market"} /\ last.ret = 0) =>
        \E k \in 1..Len(NewEvents) :
           NewEvents[k].type = "Reject" /\ NewEvents[k].reject_reason # "None"
  /\ last.op = "step" =>
        \A i \in 1..Len(pre.orders_) :
           (pre.orders_[i].state = "Pending" /\ sim.orders_[i].state = "Rejected") =>
              /\ sim.orders_[i].reject_reason # "None"
              /\ \E k \in 1..Len(NewEvents) :
                    /\ NewEvents[k].type = "Reject"
                    /\ NewEvents[k].order_id = sim.orders_[i].id
                    /\ NewEvents[k].reject_reason = sim.orders_[i].reject_reason

\* C18 (as claimed): after reset the simulator equals a freshly constructed
\* instance with the same parameters that was reset with the same arguments:
\* clock, ledger, no orders, events, fills, pending entries, buckets or active
\* sets, and empty STP summaries.
C18_ResetEqualsFresh ==
  last.op = "reset" => sim = reset(Constructed(sim.params_), 0, InitialLedger)

\* C19: the simulator after an operation is determined by the simulator
\* before it and the call: every order in which the heap may pop the due
\* entries leads a step to the same simulator, and the other operations are
\* functions of the simulator and their arguments.  Two instances that start
\* equal and receive the same calls therefore stay equal (orders, event log,
\* fill log, ledger).
C19_Determinism ==
  /\ last.op = "step" => step_outcomes(pre, last.rec) = {sim}
  /\ last.op = "place_limit" => sim = place_limit(pre, last.req).s
  /\ last.op = "place_market" => sim = place_market(pre, [side |-> "Buy", qty_q |-> 200]).s
  /\ last.op = "cancel" => sim = cancel(pre, last.id).s
  /\ last.op = "reset" => sim = reset(pre, 0, InitialLedger)

\* C19 witness: a step popped two entries with the same activation time and
\* activated both orders, the earlier submission first.
C19_Witness ==
  /\ last.op = "step"
  /\ \E i, j \in DueInStep :
        /\ i < j
        /\ pre.orders_[i].activate_ts = pre.orders_[j].activate_ts
        /\ sim.orders_[i].state = "Active" /\ sim.orders_[j].state = "Active"
        /\ sim.orders_[i].bucket_next = j

\* Orders that were Pending before the last operation and that the operation
\* was not about: a step that had not reached their activation time, a cancel
\* of another order, a submission, or a fill routine.
StayedPending ==
  IF last.op \in {"none", "reset"} THEN {}
  ELSE {i \in 1..Len(pre.orders_) :
          /\ pre.orders_[i].state = "Pending"
          /\ i \notin DueInStep
          /\ ~(last.op = "cancel" /\ last.id = pre.orders_[i].id)}

\* The fills logged for an order.
FillsOf(s, id) == {k \in 1..Len(s.fills_) : s.fills_[k].order_id = id}

\* s with every Pending order other than idx turned into an order of the
\* opposite side of order idx at the price of order idx, which crosses it.
PendingMadeCrossing(s, idx) ==
  [s EXCEPT !.orders_ =
     [j \in 1..Len(s.orders_) |->
        IF j # idx /\ s.orders_[j].state = "Pending"
        THEN [s.orders_[j] EXCEPT !.side = Opp(s.orders_[idx].side),
                                  !.price_q = s.orders_[idx].price_q]
        ELSE s.orders_[j]]]

\* C20: a Pending order is invisible to STP and to matching.  An operation
\* that is not the order's own activation or cancellation leaves the whole
\* order record as it was (state Pending, qty_ahead, visibility, filled
\* quantity) and logs no fill for it, so STP never cancels it and no fill
\* routine fills it; and the STP decision and effect for an activating order
\* are the same when every other Pending order is replaced by one that
\* crosses it, so Pending orders are not counted in self-cross detection.
C20_PendingInvisible ==
  /\ \A i \in StayedPending :
        /\ i <= Len(sim.orders_)
        /\ sim.orders_[i] = pre.orders_[i]
        /\ FillsOf(sim, pre.orders_[i].id) = FillsOf(pre, pre.orders_[i].id)
  /\ \A i \in 1..Len(sim.orders_) :
        sim.orders_[i].state = "Pending" =>
          LET r == apply_stp_on_activate_(sim, i)
              m == apply_stp_on_activate_(PendingMadeCrossing(sim, i), i)
          IN m.ok = r.ok /\ m.s = PendingMadeCrossing(r.s, i)

\* C20 witness: under CancelResting a step activated a sell and then a buy
\* that crosses it, which cancelled the sell, while a later sell at a crossing
\* price stayed Pending with its record unchanged.
C20_Witness ==
  /\ last.op = "step"
  /\ sim.params_.stp = "CancelResting"
  /\ \E i, j \in DueInStep : \E k \in StayedPending :
        /\ sim.orders_[i].state = "Cancelled"
        /\ sim.orders_[j].state = "Active"
        /\ pre.orders_[k].side = pre.orders_[i].side
        /\ Crosses(pre.orders_[j], pre.orders_[i])
        /\ Crosses(pre.orders_[j], pre.orders_[k])
        /\ sim.orders_[k] = pre.orders_[k]

\* C21: under CancelResting, for a step that activates one order i with
\* crossing resting orders X: if X outnumbers the room left in the event log,
\* i becomes Rejected with InsufficientResources, no order of X is cancelled or
\* unlinked and no resting lock is released; and whenever an order of X was
\* cancelled, i is Active after the step.
C21_CancelRestingUnderPressure ==
  (sim.params_.stp = "CancelResting" /\ Cardinality(DueInStep) = 1) =>
     \A i \in DueInStep :
        LET X == CrossingResting(pre, pre.orders_[i])
            room == sim.params_.max_events - Len(pre.events_)
        IN /\ Cardinality(X) > room =>
                 /\ sim.orders_[i].state = "Rejected"
                 /\ sim.orders_[i].reject_reason = "InsufficientResources"
                 /\ Released({i})
                 /\ \A j \in X : /\ sim.orders_[j].state = pre.orders_[j].state
                                 /\ Linked(sim, j)
                                 /\ EventsFor(sim.orders_[j].id, "Cancel") = {}
           /\ (\E j \in X : sim.orders_[j].state = "Cancelled") =>
                 sim.orders_[i].state = "Active"

\* C22: for a step that activates one order i which passes STP (under
\* CancelResting: its crossing resting orders X fit into the room of the event
\* log and are cancelled first): if no room is left for the Activate event, i
\* becomes Rejected with InsufficientResources, its lock is released, no
\* Activate event is appended for it and it is in no bucket or active set.
C22_NoRoomForActivate ==
  Cardinality(DueInStep) = 1 =>
     \A i \in DueInStep :
        LET X == IF sim.params_.stp = "CancelResting" /\ self_cross(pre, pre.orders_[i])
                 THEN CrossingResting(pre, pre.orders_[i]) ELSE {}
            room == sim.params_.max_events - Len(pre.events_)
        IN (Cardinality(X) = room) =>
              /\ sim.orders_[i].state = "Rejected"
              /\ sim.orders_[i].reject_reason = "InsufficientResources"
              /\ Released(X \cup {i})
              /\ EventsFor(sim.orders_[i].id, "Activate") = {}
              /\ MemberAt(sim, i) = {} /\ ActiveAt(sim, i) = {}
              /\ ~Linked(sim, i)

\* C22 witness: the event log was full before a step in which one order that
\* crosses nothing was due; the order left the step Rejected with
\* InsufficientResources and its lock was released.
C22_Witness ==
  /\ Cardinality(DueInStep) = 1
  /\ Len(pre.events_) = pre.params_.max_events
  /\ \E i \in DueInStep :
        /\ CrossingResting(pre, pre.orders_[i]) = {}
        /\ \E j \in 1..Len(pre.orders_) : pre.orders_[j].state = "Active"
        /\ sim.orders_[i].state = "Rejected"
        /\ sim.orders_[i].reject_reason = "InsufficientResources"
        /\ pre.ledger_.locked_cash_q + pre.ledger_.locked_position_qty_q
             > sim.ledger_.locked_cash_q + sim.ledger_.locked_position_qty_q

\* C23: an accepted limit order locks, for a Buy, floor(price * qty /
\* kPriceScale) cash units, the notional a fill of the whole quantity at the
\* limit price debits, and for a Sell under spot_no_short qty base units; the
\* free balance (total minus locked) before the submission covered the lock.
C23_LockIsNotional ==
  (last.op = "place_limit" /\ last.ret # 0) =>
     IF last.req.side = "Buy"
     THEN LET required == notional_cash_q(last.req.price_q, last.req.qty_q)
          IN /\ sim.ledger_.locked_cash_q = pre.ledger_.locked_cash_q + required
             /\ pre.ledger_.cash_q - pre.ledger_.locked_cash_q >= required
             /\ sim.ledger_.locked_position_qty_q = pre.ledger_.locked_position_qty_q
     ELSE sim.params_.risk.spot_no_short =>
             /\ sim.ledger_.locked_position_qty_q =
                   pre.ledger_.locked_position_qty_q + last.req.qty_q
             /\ pre.ledger_.position_qty_q - pre.ledger_.locked_position_qty_q
                   >= last.req.qty_q
             /\ sim.ledger_.locked_cash_q = pre.ledger_.locked_cash_q

\* C24: every FillEvent carries notional = floor(price * qty / kPriceScale)
\* and fee = floor(notional * fee_ppm / 1000000), with the maker fee for a
\* Maker fill and the taker fee for a Taker fill, and the cash of the ledger
\* moves by exactly these amounts: minus (notional + fee) for a buy, plus
\* (notional - fee) for a sell.  The same holds for the FillEvent and the
\* ledger that apply_fill_ produces for a resting order, for either flag and
\* for a quantity of one unit or of the whole remainder.
C24_FillArithmetic ==
  /\ \A k \in 1..Len(sim.fills_) :
        LET f == sim.fills_[k]
            fee_ppm == IF f.liq = "Maker" THEN sim.params_.fees.maker_fee_ppm
                       ELSE sim.params_.fees.taker_fee_ppm
        IN /\ f.notional_cash_q = (f.price_q * f.qty_q) \div kPriceScale
           /\ f.fee_cash_q = (f.notional_cash_q * fee_ppm) \div PpmScale
  /\ last.op \in {"passive", "aggressive"} =>
        sim.ledger_.cash_q = pre.ledger_.cash_q + FillsCash(NewFills)
  /\ \A i \in 1..Len(sim.orders_) : \A liq \in {"Maker", "Taker"} :
        sim.orders_[i].state \in {"Active", "Partial"} =>
          \A q \in {1, sim.orders_[i].qty_q - sim.orders_[i].filled_qty_q} :
             LET o == sim.orders_[i]
                 t == apply_fill_(sim, i, o.price_q, q, liq)
                 f == t.fills_[Len(t.fills_)]
                 fee_ppm == IF liq = "Maker" THEN sim.params_.fees.maker_fee_ppm
                            ELSE sim.params_.fees.taker_fee_ppm
                 notional == (o.price_q * q) \div kPriceScale
                 fee == (notional * fee_ppm) \div PpmScale
             IN /\ Len(t.fills_) = Len(sim.fills_) + 1
                /\ f.liq = liq /\ f.qty_q = q /\ f.price_q = o.price_q
                /\ f.notional_cash_q = notional /\ f.fee_cash_q = fee
                /\ t.ledger_.cash_q = sim.ledger_.cash_q
                     + (IF o.side = "Buy" THEN 0 - (notional + fee) ELSE notional - fee)

\* C24 witness: a sweep logged a fill whose product price * qty is no
\* multiple of the price scale, and a fill with a positive fee whose product
\* notional * fee_ppm is no multiple of 1000000, so both floors rounded.
C24_Witness ==
  /\ last.op = "aggressive"
  /\ \E k \in 1..Len(sim.fills_) :
        /\ sim.fills_[k].notional_cash_q > 0
        /\ (sim.fills_[k].price_q * sim.fills_[k].qty_q) % kPriceScale # 0
  /\ \E k \in 1..Len(sim.fills_) :
        /\ sim.fills_[k].fee_cash_q > 0
        /\ (sim.fills_[k].notional_cash_q
              * (IF sim.fills_[k].liq = "Maker" THEN sim.params_.fees.maker_fee_ppm
                 ELSE sim.params_.fees.taker_fee_ppm)) % PpmScale # 0

\* The depletion a resting order i observes in a queue update against the
\* snapshot rec: the drop of the displayed quantity at its price.
ObservedDepletion(s, i, rec) ==
  LET o == s.orders_[i]
      m == level_lookup(rec, o.side, o.price_q)
  IN IF o.last_level_qty_q > m.qty_q THEN o.last_level_qty_q - m.qty_q ELSE 0

\* Resting orders of s that a queue update against rec advances by depletion
\* only: Visible with a recorded slot, price found, no trade-through.
AdvancedByDepletion(s, rec) ==
  {i \in 1..Len(s.orders_) :
     LET o == s.orders_[i]
     IN /\ o.state \in {"Active", "Partial"}
        /\ o.visibility = "Visible" /\ o.last_level_idx >= 0
        /\ level_lookup(rec, o.side, o.price_q).found
        /\ ~trade_through(o.side, o.price_q, rec.bids[1].price_q, rec.asks[1].price_q)}

OwnLadder(rec, side) ==
  LET lv == IF side = "Buy" THEN rec.bids ELSE rec.asks
      null == IF side = "Buy" THEN kBidNullPriceQ ELSE kAskNullPriceQ
      n == Cardinality({k \in 1..Depth : lv[k].price_q # null})
  IN SubSeq(lv, 1, n)

\* The positions of the own-side ladder that show the price.
ShownAt(rec, side, price_q) ==
  {k \in 1..Len(OwnLadder(rec, side)) : OwnLadder(rec, side)[k].price_q = price_q}

\* The price lies between the best and the worst valid own-side price.
InVisibleRange(rec, side, price_q) ==
  LET L == OwnLadder(rec, side)
  IN /\ L # <<>>
     /\ IF side = "Buy" THEN L[1].price_q >= price_q /\ price_q >= L[Len(L)].price_q
        ELSE L[1].price_q <= price_q /\ price_q <= L[Len(L)].price_q

StayedResting ==
  {i \in 1..Len(pre.orders_) :
     /\ i <= Len(sim.orders_)
     /\ pre.orders_[i].state \in {"Active", "Partial"}
     /\ sim.orders_[i].state \in {"Active", "Partial"}}

\* Order i left the last operation anchored at the level m of its snapshot:
\* Visible, slot and quantity recorded, qty_ahead = displayed quantity, and
\* nothing filled by the operation.
ReAnchored(i, m) ==
  /\ sim.orders_[i].visibility = "Visible"
  /\ sim.orders_[i].last_level_idx = m.idx
  /\ sim.orders_[i].last_level_qty_q = m.qty_q
  /\ sim.orders_[i].qty_ahead_q = m.qty_q
  /\ sim.orders_[i].filled_qty_q = pre.orders_[i].filled_qty_q
  /\ sim.orders_[i].state = pre.orders_[i].state

\* C27: re-anchor.  In a step, every resting order whose price the snapshot
\* shows while the order was Frozen, Blind or without a recorded slot leaves
\* the step Visible with qty_ahead = displayed quantity, slot and quantity
\* recorded and nothing filled; and the passive routine, applied to a bucket
\* that was Frozen, Blind or without a slot and whose price the snapshot shows,
\* leaves every resting member of the bucket so.
C27_ReAnchor ==
  /\ last.op = "step" =>
        \A i \in StayedResting :
           LET o == pre.orders_[i]
               m == level_lookup(last.rec, o.side, o.price_q)
           IN (m.found /\ (o.visibility \in {"Frozen", "Blind"} \/ o.last_level_idx < 0))
                 => ReAnchored(i, m)
  /\ last.op = "passive" =>
        LET b == pre.buckets_[last.side][last.id]
            price_q == pre.prices_[last.side][last.id]
            m == level_lookup(last.rec, last.side, price_q)
        IN (m.found /\ (b.visibility \in {"Frozen", "Blind"} \/ b.last_level_idx < 0)) =>
              /\ sim.fills_ = pre.fills_
              /\ \A i \in StayedResting :
                    (pre.orders_[i].side = last.side /\ pre.orders_[i].price_q = price_q)
                       => ReAnchored(i, m)

\* C28: vanishing level.  In a step whose snapshot does not show the price of
\* a resting order: a Visible order with a recorded slot becomes Frozen and
\* keeps its qty_ahead; a Blind order whose price is now within the visible
\* range becomes Visible with qty_ahead 0 and no slot; a Blind order out of
\* range stays Blind; a Frozen order stays Frozen with its qty_ahead; nothing is
\* filled.  The passive routine fills nothing in a bucket whose price the
\* snapshot does not show.
C28_VanishingLevel ==
  /\ last.op = "step" =>
        \A i \in StayedResting :
           LET o == pre.orders_[i]
               n == sim.orders_[i]
               shown == ShownAt(last.rec, o.side, o.price_q) # {}
               inRange == InVisibleRange(last.rec, o.side, o.price_q)
           IN (~shown) =>
                 /\ n.filled_qty_q = o.filled_qty_q /\ n.state = o.state
                 /\ (o.visibility = "Visible" /\ o.last_level_idx >= 0) =>
                       n.visibility = "Frozen" /\ n.qty_ahead_q = o.qty_ahead_q
                 /\ (o.visibility = "Blind" /\ inRange) =>
                       /\ n.visibility = "Visible" /\ n.qty_ahead_q = 0
                       /\ n.last_level_idx = -1
                 /\ (o.visibility = "Blind" /\ ~inRange) => n.visibility = "Blind"
                 /\ o.visibility = "Frozen" =>
                       n.visibility = "Frozen" /\ n.qty_ahead_q = o.qty_ahead_q
  /\ last.op = "passive" =>
        LET price_q == pre.prices_[last.side][last.id]
        IN ShownAt(last.rec, last.side, price_q) = {} =>
              /\ sim.fills_ = pre.fills_
              /\ \A i \in 1..Len(pre.orders_) :
                    sim.orders_[i].filled_qty_q = pre.orders_[i].filled_qty_q

\* C29: trade-through.  In a step whose snapshot has a valid best ask at or
\* below the price of a resting Buy order (a valid best bid at or above the
\* price of a resting Sell order), the order leaves the step with qty_ahead 0,
\* with its filled quantity and state unchanged, and the step appends no
\* FillEvent.
C29_TradeThrough ==
  last.op = "step" =>
     /\ sim.fills_ = pre.fills_
     /\ \A i \in StayedResting :
          LET o == pre.orders_[i]
              n == sim.orders_[i]
              tt == trade_through(o.side, o.price_q, last.rec.bids[1].price_q,
                                  last.rec.asks[1].price_q)
          IN (tt) =>
                /\ n.qty_ahead_q = 0
                /\ n.filled_qty_q = o.filled_qty_q
                /\ n.state = o.state

\* The state of the FIFO scenario: alpha = 1, no latency, two unfilled buys of
\* 2 at 99 resting at a level last seen showing 40, and the last operation was
\* the step on the snapshot bid 100 x 10, bid 99 x 40, best ask 99 x 10.
FifoScenario ==
  /\ sim.params_.alpha_ppm = 1000000 /\ sim.params_.outbound_latency = 0
  /\ last.op = "step"
  /\ last.rec.bids[1] = [price_q |-> 100, qty_q |-> 10]
  /\ last.rec.bids[2] = [price_q |-> 99, qty_q |-> 40]
  /\ last.rec.asks[1] = [price_q |-> 99, qty_q |-> 10]
  /\ Len(pre.orders_) = 2
  /\ \A i \in 1..2 :
        LET o == pre.orders_[i]
        IN /\ o.side = "Buy" /\ o.price_q = 99 /\ o.qty_q = 2
           /\ o.state = "Active" /\ o.filled_qty_q = 0
           /\ o.visibility = "Visible" /\ o.last_level_qty_q = 40

\* C30: after the step of the FIFO scenario the first order is Filled with
\* filled 2, the second is Partial with filled 1, and the step appended exactly
\* two FillEvents, both Taker at price 99, of quantities 2 and 1.
C30_FifoAfterTradeThrough ==
  FifoScenario =>
     /\ sim.orders_[1].state = "Filled" /\ sim.orders_[1].filled_qty_q = 2
     /\ sim.orders_[2].state = "Partial" /\ sim.orders_[2].filled_qty_q = 1
     /\ Len(NewFills) = 2
     /\ \A k \in 1..2 : NewFills[k].liq = "Taker" /\ NewFills[k].price_q = 99
     /\ NewFills[1].qty_q = 2 /\ NewFills[2].qty_q = 1

\* C31: STP summary agreement.  After every operation, on each side the
\* summary flag has_active_ is true iff a resting (Active/Partial) order exists
\* on that side, and then best_active_q_ is the best price over exactly those
\* resting orders (maximum for Buy, minimum for Sell), so that the next STP
\* detection uses the best remaining price.
C31_SummaryAgreement ==
  \A side \in Sides :
     LET resting == {i \in 1..Len(sim.orders_) :
                       sim.orders_[i].side = side /\ is_resting(sim.orders_[i].state)}
     IN /\ sim.has_active_[side] = (resting # {})
        /\ resting # {} =>
              /\ \E i \in resting : sim.orders_[i].price_q = sim.best_active_q_[side]
              /\ \A i \in resting :
                    IF side = "Buy" THEN sim.orders_[i].price_q <= sim.best_active_q_[side]
                    ELSE sim.orders_[i].price_q >= sim.best_active_q_[side]

\* The order a FillEvent belongs to, as it was before the last operation.
FilledOrder(f) == pre.orders_[CHOOSE i \in 1..Len(pre.orders_) : pre.orders_[i].id = f.order_id]

\* The opposing ladder of the snapshot for an order of the given side.
OpposingLadder(rec, side) == IF side = "Buy" THEN rec.asks ELSE rec.bids

\* C32: every FillEvent appended by the aggressive sweep is a Taker fill of an
\* order that was resting and marketable against the sweep's snapshot (Buy:
\* limit >= best ask; Sell: limit <= best bid); its price is the price of a
\* valid opposing level of that snapshot and is within the order's limit (Buy:
\* <= limit; Sell: >= limit); its quantity is positive.
C32_TakerPrice ==
  last.op = "aggressive" =>
     \A k \in 1..Len(NewFills) :
        LET f == NewFills[k]
            o == FilledOrder(f)
            L == OpposingLadder(last.rec, o.side)
        IN /\ f.liq = "Taker" /\ f.side = o.side /\ f.qty_q > 0
           /\ is_resting(o.state)
           /\ \E lvl \in 1..Depth :
                 /\ L[lvl].price_q = f.price_q
                 /\ IF o.side = "Buy" THEN is_valid_ask_price(f.price_q)
                    ELSE is_valid_bid_price(f.price_q)
           /\ IF o.side = "Buy"
              THEN f.price_q <= o.price_q /\ o.price_q >= last.rec.asks[1].price_q
              ELSE f.price_q >= o.price_q /\ o.price_q <= last.rec.bids[1].price_q

\* C32 witness: a sweep filled a Buy order below its limit, at the best ask,
\* and stopped short of its quantity because the next ask level is priced
\* above the limit.
C32_Witness ==
  /\ last.op = "aggressive"
  /\ \E k \in 1..Len(NewFills) :
        LET f == NewFills[k]
            o == FilledOrder(f)
        IN /\ o.side = "Buy"
           /\ f.price_q = last.rec.asks[1].price_q
           /\ is_valid_ask_price(last.rec.asks[2].price_q)
           /\ last.rec.asks[2].price_q > o.price_q
           /\ \E i \in 1..Len(sim.orders_) :
                 sim.orders_[i].id = o.id /\ sim.orders_[i].state = "Partial"

\* The quantity the first k FillEvents of fills took from orders of the given
\* side at the given price.
RECURSIVE SweptAt(_, _, _, _)
SweptAt(fills, side, price_q, k) ==
  IF k = 0 THEN 0
  ELSE SweptAt(fills, side, price_q, k - 1)
         + (IF fills[k].side = side /\ fills[k].price_q = price_q THEN fills[k].qty_q ELSE 0)

\* C33: shared visible depth.  Within one aggressive sweep, for every valid
\* opposing level of the snapshot, the quantities of the Taker fills taken at
\* that level by all of the agent's orders together do not exceed the
\* quantity the snapshot displays at that level.
C33_SharedDepth ==
  last.op = "aggressive" =>
     \A side \in Sides : \A lvl \in 1..Depth :
        LET l == OpposingLadder(last.rec, side)[lvl]
            valid == IF side = "Buy" THEN is_valid_ask_price(l.price_q)
                     ELSE is_valid_bid_price(l.price_q)
        IN valid => SweptAt(NewFills, side, l.price_q, Len(NewFills)) <= l.qty_q

\* C33 witness: two orders were filled at the same level in one sweep, the
\* level was used up, and the later order is left with an unfilled remainder.
C33_Witness ==
  /\ last.op = "aggressive"
  /\ \E j, k \in 1..Len(NewFills) :
        LET f == NewFills[j]
            g == NewFills[k]
        IN /\ j < k /\ f.order_id # g.order_id
           /\ f.side = g.side /\ f.price_q = g.price_q
           /\ \E lvl \in 1..Depth :
                 /\ OpposingLadder(last.rec, f.side)[lvl].price_q = f.price_q
                 /\ SweptAt(NewFills, f.side, f.price_q, Len(NewFills))
                      = OpposingLadder(last.rec, f.side)[lvl].qty_q
           /\ \E i \in 1..Len(sim.orders_) :
                 sim.orders_[i].id = g.order_id /\ sim.orders_[i].state = "Partial"

\* An order of the given side and limit is marketable against the snapshot.
Marketable(rec, side, price_q) ==
  IF side = "Buy"
  THEN is_valid_ask_price(rec.asks[1].price_q) /\ price_q >= rec.asks[1].price_q
  ELSE is_valid_bid_price(rec.bids[1].price_q) /\ price_q <= rec.bids[1].price_q

\* The opposing levels of the snapshot an order of the given side and limit
\* may take from: valid and priced within the limit.
LevelsWithinLimit(rec, side, price_q) ==
  {lvl \in 1..Depth :
     LET px == OpposingLadder(rec, side)[lvl].price_q
     IN IF side = "Buy" THEN is_valid_ask_price(px) /\ px <= price_q
        ELSE is_valid_bid_price(px) /\ px >= price_q}

\* C34: sweep completeness.  After an aggressive sweep every order that was
\* resting before it and is marketable against its snapshot is either Filled
\* and unlinked, or every opposing level priced within its limit has been
\* used up by the fills of the sweep; whatever the own side of the snapshot
\* shows.
C34_SweepCompleteness ==
  last.op = "aggressive" =>
     \A i \in 1..Len(pre.orders_) :
        LET o == pre.orders_[i]
        IN (is_resting(o.state) /\ Marketable(last.rec, o.side, o.price_q)) =>
              \/ sim.orders_[i].state = "Filled" /\ ~Linked(sim, i)
              \/ \A lvl \in LevelsWithinLimit(last.rec, o.side, o.price_q) :
                    LET l == OpposingLadder(last.rec, o.side)[lvl]
                    IN SweptAt(NewFills, o.side, l.price_q, Len(NewFills)) = l.qty_q

\* The resting orders of one side in the order the sweep is to serve them:
\* buckets from the best price outward (Buy: highest first, given the buckets
\* pi, pi - 1, ..., 1; Sell: lowest first, given pi, pi + 1, ...), head to
\* tail within a bucket.
RECURSIVE SweepQueue(_, _, _)
SweepQueue(s, side, pi) ==
  IF pi < 1 \/ pi > Len(s.buckets_[side]) THEN <<>>
  ELSE Chain(s, s.buckets_[side][pi].head)
         \o SweepQueue(s, side, IF side = "Buy" THEN pi - 1 ELSE pi + 1)

\* The position of order i in the sweep queue of its side before the last
\* operation (0 when it is in no bucket).
Rank(i) ==
  LET side == pre.orders_[i].side
      q == SweepQueue(pre, side, IF side = "Buy" THEN Len(pre.buckets_[side]) ELSE 1)
  IN IF \E k \in 1..Len(q) : q[k] = i THEN CHOOSE k \in 1..Len(q) : q[k] = i ELSE 0

\* The index of the order a FillEvent belongs to.
FilledIdx(f) == CHOOSE i \in 1..Len(pre.orders_) : pre.orders_[i].id = f.order_id

LifecycleSteps ==
  {<<"Pending", "Active">>, <<"Pending", "Cancelled">>, <<"Pending", "Rejected">>,
   <<"Active", "Partial">>, <<"Active", "Filled">>, <<"Active", "Cancelled">>,
   <<"Partial", "Partial">>, <<"Partial", "Filled">>, <<"Partial", "Cancelled">>}

\* The pending entries of pre that a step at the new clock finds due.
DueEntries == {e \in pre.pending_ : pending_due(e, sim.now_)}

\* C36: order lifecycle.  Within an episode every operation keeps each order's
\* state or moves it along Pending -> Active | Cancelled | Rejected, Active ->
\* Partial | Filled | Cancelled, Partial -> Partial | Filled | Cancelled; an
\* order that is Filled, Cancelled or Rejected keeps all its fields, and the
\* operation appends no event and no FillEvent carrying its id; a step drops
\* every due heap entry, also that of an order cancelled while Pending, which
\* stays Cancelled.
C36_Lifecycle ==
  last.op # "reset" =>
     /\ Len(sim.orders_) >= Len(pre.orders_)
     /\ \A i \in 1..Len(pre.orders_) :
           LET o == pre.orders_[i]
               n == sim.orders_[i]
           IN /\ n.id = o.id
              /\ n.state = o.state \/ <<o.state, n.state>> \in LifecycleSteps
              /\ is_terminal(o.state) =>
                    /\ n = o
                    /\ \A k \in 1..Len(NewEvents) : NewEvents[k].order_id # o.id
                    /\ \A k \in 1..Len(NewFills) : NewFills[k].order_id # o.id
     /\ last.op = "step" => DueEntries \cap sim.pending_ = {}

\* C36 witness: a step popped the due heap entry of an order that had been
\* cancelled while Pending; the order is still Cancelled and the step logged
\* nothing for it.
C36_Witness ==
  /\ last.op = "step"
  /\ \E e \in DueEntries :
        /\ e \notin sim.pending_
        /\ \E i \in 1..Len(pre.orders_) :
              /\ pre.orders_[i].id = e.order_id
              /\ pre.orders_[i].state = "Cancelled"
              /\ sim.orders_[i] = pre.orders_[i]
              /\ \A k \in 1..Len(NewEvents) : NewEvents[k].order_id # e.order_id

\* The members of bucket b of a side of s, head first.
BucketChain(s, side, b) == ChainUpTo(s, s.buckets_[side][b].head, Len(s.orders_) + 1)

\* C37: activation and FIFO order.  In every bucket the members stand in
\* activation order: ascending (activation timestamp, order id) from head to
\* tail.  A step appends the orders it activates behind the members that were
\* resting before, in ascending (activation timestamp, order id).  A passive
\* allocation reaches a member only after every member ahead of it is Filled,
\* and the aggressive sweep fills the members of a bucket head first.
C37_ActivationFifo ==
  /\ \A side \in Sides : \A b \in 1..Len(sim.buckets_[side]) :
        LET c == BucketChain(sim, side, b)
        IN \A j, k \in 1..Len(c) :
              j < k =>
                 LET x == sim.orders_[c[j]]
                     y == sim.orders_[c[k]]
                 IN /\ x.id < y.id
                    /\ x.activate_ts <= y.activate_ts
                    /\ (last.op = "step" /\ c[j] \in ActivatedInStep) => c[k] \in ActivatedInStep
  /\ last.op = "passive" =>
        LET c == BucketChain(pre, last.side, last.id)
        IN \A j, k \in 1..Len(c) :
              (j < k /\ sim.orders_[c[k]].filled_qty_q > pre.orders_[c[k]].filled_qty_q) =>
                 sim.orders_[c[j]].state = "Filled"
  /\ last.op = "aggressive" =>
        \A j, k \in 1..Len(NewFills) :
           LET fi == FilledIdx(NewFills[j])
               gi == FilledIdx(NewFills[k])
           IN (/\ j < k /\ fi # gi /\ pre.orders_[fi].side = pre.orders_[gi].side
               /\ pre.orders_[fi].price_q = pre.orders_[gi].price_q) =>
                 pre.orders_[fi].id < pre.orders_[gi].id

\* C37 witness: a step activated two orders at one price behind a member that
\* was resting there before; the bucket lists the three in that order.
C37_Witness ==
  /\ last.op = "step"
  /\ \E side \in Sides : \E b \in 1..Len(sim.buckets_[side]) :
        LET c == BucketChain(sim, side, b)
        IN /\ Len(c) = 3
           /\ c[1] \notin ActivatedInStep
           /\ c[2] \in ActivatedInStep /\ c[3] \in ActivatedInStep
           /\ sim.orders_[c[2]].id < sim.orders_[c[3]].id

\* C38: at the end of every step, for every bucket and each of its members,
\* the bucket's visibility, last-observed slot and last-observed displayed
\* quantity equal the member's; buckets created in the step and orders that
\* joined a bucket in the step included.
C38_BucketAgreesWithMembers ==
  last.op = "step" =>
     \A side \in Sides : \A b \in 1..Len(sim.buckets_[side]) :
        LET c == BucketChain(sim, side, b)
            bk == sim.buckets_[side][b]
        IN \A k \in 1..Len(c) :
              LET o == sim.orders_[c[k]]
              IN /\ o.visibility = bk.visibility
                 /\ o.last_level_idx = bk.last_level_idx
                 /\ o.last_level_qty_q = bk.last_level_qty_q

\* The intrusive lists of s are well formed: the price index is strictly
\* ascending with one bucket per price and no empty bucket; following next
\* from head visits exactly size distinct members, all resting at the
\* bucket's side and price, and ends at tail; prev is the inverse of next;
\* head has no prev and tail no next; an order that is not resting has no
\* links.
WellFormedBuckets(s) ==
  /\ \A side \in Sides :
        /\ Len(s.buckets_[side]) = Len(s.prices_[side])
        /\ \A b \in 1..(Len(s.prices_[side]) - 1) : s.prices_[side][b] < s.prices_[side][b + 1]
        /\ \A b \in 1..Len(s.buckets_[side]) :
              LET bk == s.buckets_[side][b]
                  c == BucketChain(s, side, b)
              IN /\ bk.size >= 1 /\ Len(c) = bk.size
                 /\ c[1] = bk.head /\ c[Len(c)] = bk.tail
                 /\ s.orders_[bk.head].bucket_prev = kInvalidIndex
                 /\ s.orders_[bk.tail].bucket_next = kInvalidIndex
                 /\ \A j, k \in 1..Len(c) : j # k => c[j] # c[k]
                 /\ \A k \in 1..(Len(c) - 1) : s.orders_[c[k + 1]].bucket_prev = c[k]
                 /\ \A k \in 1..Len(c) :
                       /\ is_resting(s.orders_[c[k]].state)
                       /\ s.orders_[c[k]].side = side
                       /\ s.orders_[c[k]].price_q = s.prices_[side][b]
  /\ \A i \in 1..Len(s.orders_) :
        ~is_resting(s.orders_[i].state) =>
           /\ s.orders_[i].bucket_prev = kInvalidIndex
           /\ s.orders_[i].bucket_next = kInvalidIndex

\* The resting orders of s that follow order i in its bucket list.
Behind(s, i) ==
  LET c == Chain(s, s.orders_[i].bucket_next)
  IN {c[k] : k \in 1..Len(c)}

\* Every operation but reset keeps the relative order of the members that
\* stay linked.
KeepsRelativeOrder ==
  last.op # "reset" =>
     \A i, j \in 1..Len(pre.orders_) :
        (/\ is_resting(pre.orders_[i].state) /\ j \in Behind(pre, i)
         /\ is_resting(sim.orders_[i].state) /\ is_resting(sim.orders_[j].state)) =>
           j \in Behind(sim, i)

\* Cancelling the resting order i of sim unlinks it and leaves well formed
\* lists in which the other members keep their order.
CancelUnlinks(i) ==
  LET r == cancel(sim, sim.orders_[i].id)
  IN /\ r.ret
     /\ r.s.orders_[i].state = "Cancelled"
     /\ ~Linked(r.s, i)
     /\ WellFormedBuckets(r.s)
     /\ \A j \in 1..Len(sim.orders_) : \A k \in Behind(sim, j) :
           (j # i /\ k # i) => k \in Behind(r.s, j)

\* C39 (as claimed): in every reachable state the bucket lists are well
\* formed, operations keep the relative order of the remaining members, and
\* every member can be cancelled.
C39_BucketIntegrityAlways ==
  /\ WellFormedBuckets(sim)
  /\ KeepsRelativeOrder
  /\ \A i \in 1..Len(sim.orders_) : is_resting(sim.orders_[i].state) => CancelUnlinks(i)

\* C39 (amended): the same, where a member can be cancelled whenever the event
\* log has room for the Cancel event; when the log is full, cancel returns
\* false and changes nothing.
C39_BucketIntegrity ==
  /\ WellFormedBuckets(sim)
  /\ KeepsRelativeOrder
  /\ \A i \in 1..Len(sim.orders_) :
        is_resting(sim.orders_[i].state) =>
           IF push_event_ok(sim) THEN CancelUnlinks(i)
           ELSE LET r == cancel(sim, sim.orders_[i].id) IN ~r.ret /\ r.s = sim

\* C39 witness: the middle member of a bucket of three was cancelled; the
\* other two are linked to each other in their old order.
C39_Witness ==
  /\ last.op = "cancel" /\ last.ret = 1
  /\ \E side \in Sides : \E b \in 1..Len(pre.buckets_[side]) :
        LET c == BucketChain(pre, side, b)
        IN /\ Len(c) = 3
           /\ pre.orders_[c[2]].id = last.id
           /\ b <= Len(sim.buckets_[side])
           /\ BucketChain(sim, side, b) = <<c[1], c[3]>>
           /\ sim.orders_[c[3]].bucket_prev = c[1]

\* C40: in every step the queue/visibility update is applied exactly once to
\* every resting order of either side: an order that was resting before the
\* step and is resting after it leaves the step with the visibility, slot,
\* last-observed quantity, qty_ahead and filled quantity that one application
\* of update_one_cached to its previous values gives for the step's snapshot.
C40_UpdatedExactlyOnce ==
  last.op = "step" =>
     \A i \in StayedResting :
        LET o == pre.orders_[i]
            n == sim.orders_[i]
            u == update_one_cached(pre.params_, level_lookup(last.rec, o.side, o.price_q),
                                   last.rec.bids[1].price_q, last.rec.asks[1].price_q, o)
        IN            /\ n.visibility = u.visibility
           /\ n.last_level_idx = u.last_level_idx
           /\ n.last_level_qty_q = u.last_level_qty_q
           /\ n.qty_ahead_q = u.qty_ahead_q
           /\ n.filled_qty_q = u.filled_qty_q

====
